---- MODULE Spec2Model ----
(***************************************************************************)
(* Model of the haulage-cycle analysis service: the Excel dataset cache    *)
(* of CycleRepository (app/repositories/cycle_repository.py), the legacy   *)
(* Flask variant of the same cache (app.py) and the CycleService calls     *)
(* that use the cached DataFrame (app/services/cycle_service.py).          *)
(*                                                                         *)
(* Text is modelled as sequences of character codes, so that the           *)
(* basename test startswith('~$'), the "*.xlsx" glob and the sort of the   *)
(* "name:size:mtime" strings are computed as the code computes them.       *)
(***************************************************************************)
EXTENDS Integers, Sequences, FiniteSets, TLC

VARIABLES
    dirExists,  \* whether the data directory CicloDetalhado exists
    fs,         \* the directory: file name -> [size, mtime, content]
    clock,      \* the wall clock (time.time / datetime.now / st_mtime)
    cache,      \* CycleRepository._cache
    heap,       \* the live DataFrame objects: heap[id] is the rows of object id
    req,        \* per request: the operation it runs, its position and locals
    calls,      \* number of requests dispatched so far
    stored,     \* history: per DataFrame object, what its reload built
    hashed,     \* history: the files whose fingerprint the cache holds
    quiet,      \* history: "call" when get_raw_data has succeeded and the eligible
                \* files have not changed since that call first looked at them,
                \* "return" when they have not changed since it returned, else "no"
    handed,     \* history: the DataFrame get_raw_data last returned (0: none
                \* since the service started or clear_cache was asked for)
    fsops,      \* number of changes made to the directory so far
    svc         \* one CycleService / app.py computation on given rows: the rows,
                \* the filters, the function applied and what it returned

vars == <<dirExists, fs, clock, cache, heap, req, calls, stored, hashed, quiet, handed, fsops, svc>>

----------------------------------------------------------------------------
(* Bounds of the exploration *)

MaxCalls == 2
MaxFsOps == 2
MaxThreadedCalls == 2
MaxPolls == 1

\* The request slots: the threads of the Flask server, of which the event
\* loop of the FastAPI server is one.
Requests == {1, 2}
EventLoop == {1}

----------------------------------------------------------------------------
(* File names, as character codes *)

NameA == <<97, 46, 120, 108, 115, 120>>                 \* "a.xlsx"
NameB == <<98, 46, 120, 108, 115, 120>>                 \* "b.xlsx"
NameTmp == <<126, 36, 97, 46, 120, 108, 115, 120>>      \* "~$a.xlsx"
NameCsv == <<97, 46, 99, 115, 118>>                     \* "a.csv"

Names == {NameA, NameB, NameTmp, NameCsv}

\* What the specification calls eligible and temporary files (used by the
\* properties only; the operations below compute their own file lists).
EligibleNames == {NameA, NameB}
TempNames == {NameTmp}

----------------------------------------------------------------------------
(* Workbook contents.  Content 0 is a file pd.read_excel cannot read (not  *)
(* a workbook, or one lacking a column of usecols); the others are the     *)
(* DataHoraInicio cells of the rows of a readable workbook.  A cell is a   *)
(* timestamp, a text (v is the instant the text denotes, 0 when it denotes *)
(* none), or empty.                                                        *)

TsCell(v) == [k |-> "ts", v |-> v]
TextCell(v) == [k |-> "text", v |-> v]
NaT == [k |-> "NaT", v |-> 0]

Contents == {0, 1, 2}

CellsOf(c) ==
    IF c = 1 THEN <<TsCell(1)>>
    ELSE IF c = 2 THEN <<TextCell(2), TextCell(0)>>
    ELSE <<>>

\* The size in bytes of a file with content c: the unreadable file and the
\* one-row workbook happen to have the same size.
SizeOf(c) == IF c = 2 THEN 2 ELSE 1

----------------------------------------------------------------------------
(* Text helpers *)

\* str.startswith / str.endswith
StartsWith(s, p) == Len(s) >= Len(p) /\ SubSeq(s, 1, Len(p)) = p
EndsWith(s, p) == Len(s) >= Len(p) /\ SubSeq(s, Len(s) - Len(p) + 1, Len(s)) = p

\* str(n) for a natural number: its decimal digits
RECURSIVE Str(_)
Str(n) == IF n < 10 THEN <<48 + n>> ELSE Str(n \div 10) \o <<48 + (n % 10)>>

\* str(x) for a float holding a whole number of seconds: "n.0"
StrFloat(n) == Str(n) \o <<46, 48>>

\* Python's order on str: by code point, a proper prefix first
RECURSIVE StrLess(_, _)
StrLess(a, b) ==
    IF b = <<>> THEN FALSE
    ELSE IF a = <<>> THEN TRUE
    ELSE IF Head(a) # Head(b) THEN Head(a) < Head(b)
    ELSE StrLess(Tail(a), Tail(b))

\* sorted(xs) for a list of str (insertion into the sorted rest)
RECURSIVE InsertSorted(_, _)
InsertSorted(x, xs) ==
    IF xs = <<>> THEN <<x>>
    ELSE IF StrLess(Head(xs), x) THEN <<Head(xs)>> \o InsertSorted(x, Tail(xs))
    ELSE <<x>> \o xs

RECURSIVE Sorted(_)
Sorted(xs) == IF xs = <<>> THEN <<>> ELSE InsertSorted(Head(xs), Sorted(Tail(xs)))

\* The lists a directory scan may return for a set of names: os.listdir
\* (and so glob.glob) gives the entries in arbitrary order.
Orders(S) == {o \in [1..Cardinality(S) -> S] : \A n \in S : \E i \in DOMAIN o : o[i] = n}

\* Optional values: None is the empty tuple, a value x is <<x>>.
None == <<>>
Some(x) == <<x>>

----------------------------------------------------------------------------
(* The pieces of _get_files_hash and _load_excel_files *)

\* glob.glob(f"{data_path}/*.xlsx"): the names ending in ".xlsx" that do not
\* start with a dot; nothing when the directory does not exist.
GlobXlsx(d, f) ==
    IF d THEN {n \in DOMAIN f : EndsWith(n, <<46, 120, 108, 115, 120>>) /\ Head(n) # 46}
    ELSE {}

\* Fault variant: the '~$' test left out of the list comprehension.
IsTempFileNever(n) == FALSE

\* os.path.basename(f).startswith('~$')
IsTempFile(n) == StartsWith(n, <<126, 36>>)

\* [f for f in all_files if not os.path.basename(f).startswith('~$')]
ValidFiles(S) == {n \in S : ~IsTempFile(n)}

\* f"{filename}:{stat.st_size}:{stat.st_mtime}"; the directory prefix, which
\* every filename shares, is left out of the names.
FileInfo(n, st) == n \o <<58>> \o Str(st.size) \o <<58>> \o StrFloat(st.mtime)

\* Fault variant: hash(tuple(files_info)), the sort left out.
HashOfInfosUnsorted(infos) == infos

\* hash(tuple(sorted(files_info))): Python's hash is taken to be free of
\* collisions, so the value is represented by the tuple it hashes.
HashOfInfos(infos) == Sorted(infos)

\* The fingerprint of a directory state, whatever the scan order.
InfoTriples(d, f) ==
    IF d THEN {<<n, f[n].size, f[n].mtime>> : n \in EligibleNames \cap DOMAIN f} ELSE {}

----------------------------------------------------------------------------
(* DataFrames *)

\* The rows pd.read_excel gives for one file: a row carries its
\* DataHoraInicio cell; src and i (file and position) identify it.
ReadExcel(n, st) ==
    [i \in 1..Len(CellsOf(st.content)) |->
        [src |-> n, i |-> i, DataHoraInicio |-> CellsOf(st.content)[i]]]

\* pd.concat(df_list, ignore_index=True)
RECURSIVE Concat(_)
Concat(dfs) == IF dfs = <<>> THEN <<>> ELSE Head(dfs) \o Concat(Tail(dfs))

\* pd.to_datetime(cell, errors='coerce') on one cell
ToDatetime(c) ==
    IF c.k = "ts" THEN c
    ELSE IF c.k = "text" /\ c.v # 0 THEN TsCell(c.v)
    ELSE NaT

----------------------------------------------------------------------------
(* Initial state *)

EmptyDir == [n \in {} |-> 0]
NoObjects == [i \in {} |-> 0]

File(mt, c) == [size |-> SizeOf(c), mtime |-> mt, content |-> c]

\* The directory states the service may be started in: an empty directory,
\* one workbook, two workbooks next to an Excel lock file and a CSV export.
InitialDirs ==
    { [d |-> TRUE, f |-> EmptyDir],
      [d |-> TRUE, f |-> [n \in {NameA} |-> File(1, 1)]],
      [d |-> TRUE, f |-> [n \in Names |->
            IF n = NameA THEN File(1, 1)
            ELSE IF n = NameB THEN File(1, 2)
            ELSE File(1, 0)]] }

\* CycleRepository.__init__: self._cache
EmptyCache == [raw_data |-> 0, processed_data |-> 0, last_check |-> 0, files_hash |-> None]

NothingHashed == [set |-> {}, scan |-> <<>>]

NoResult == [kind |-> "none", val |-> 0, err |-> "", hit |-> FALSE]

\* No record of get_cache_status yet: the keys of the dict it builds.
NoStatus ==
    [ has_raw_data |-> FALSE, has_processed_data |-> FALSE, last_check |-> 0,
      files_hash |-> None, current_files_hash |-> None, cache_valid |-> FALSE ]

\* No computation on given rows is being looked at.
NoService == [rows |-> <<>>, query |-> <<>>, filters |-> <<>>, op |-> "none", out |-> <<>>]

\* A request that runs nothing.
IdleRequest ==
    [ op |-> "none", pc |-> "idle", cid |-> 0,
      files |-> <<>>, infos |-> <<>>, df_list |-> <<>>,
      current_hash |-> None, current_time |-> 0,
      raw_data |-> 0, old_cache |-> EmptyCache, df |-> 0,
      status |-> NoStatus, pass |-> 0, left |-> None,
      \* history of the call, for the properties
      polls |-> 0, before |-> None,
      pre |-> EmptyCache, quiet0 |-> "no", handed0 |-> 0, dirty |-> FALSE,
      fp |-> None, scan |-> <<>>, statted |-> {}, listed |-> {}, read |-> {},
      loaded |-> FALSE,
      gret |-> NoResult, ret |-> NoResult ]

Init ==
    /\ \E i \in InitialDirs : dirExists = i.d /\ fs = i.f
    /\ clock = 1
    /\ cache = EmptyCache
    /\ heap = NoObjects
    /\ req = [r \in Requests |-> IdleRequest]
    /\ calls = 0
    /\ stored = NoObjects
    /\ hashed = NothingHashed
    /\ quiet = "no"
    /\ handed = 0
    /\ fsops = 0
    /\ svc = NoService

----------------------------------------------------------------------------
(* The directory, changed by whoever exports the workbooks.  The service  *)
(* learns of a change only when it next scans the directory, stats or     *)
(* reads a file or reads the clock, so a change is taken to happen right   *)
(* before such a statement of some request.                                *)

\* The request is about to look at the directory or at the clock.
Looking(rq) ==
    \/ rq.pc \in {"hash_glob", "hash_stat", "load_glob"}
    \/ rq.pc = "load_read" /\ rq.files # <<>>

\* The effect of a directory change on the history variables: a change of
\* the (path, size, mtime) triples of the eligible files ends the quiet
\* period; for a call that has not yet looked at the directory it counts as
\* made before the call (quiet0), for the other calls as made during the
\* call (dirty).
Changed(d2, f2) == InfoTriples(d2, f2) # InfoTriples(dirExists, fs)

DirChange(d2, f2, t2) ==
    /\ \E r \in Requests : Looking(req[r])
    /\ fsops < MaxFsOps
    /\ fsops' = fsops + 1
    /\ dirExists' = d2
    /\ fs' = f2
    /\ clock' = t2
    /\ quiet' = (IF Changed(d2, f2) THEN "no" ELSE quiet)
    /\ req' = [r \in Requests |->
                IF req[r].cid = 0 \/ ~Changed(d2, f2) THEN req[r]
                ELSE IF req[r].pc = "hash_glob" THEN [req[r] EXCEPT !.quiet0 = "no"]
                ELSE [req[r] EXCEPT !.dirty = TRUE]]
    /\ UNCHANGED <<cache, heap, calls, stored, hashed, handed, svc>>

\* A file is created or rewritten, some time after the last write to the
\* directory; its mtime is the time of the write.
WriteFile(n, c) ==
    /\ dirExists
    /\ DirChange(TRUE, [m \in DOMAIN fs \cup {n} |->
                            IF m = n THEN File(clock + 1, c) ELSE fs[m]], clock + 1)

DeleteFile(n) ==
    /\ n \in DOMAIN fs
    /\ DirChange(TRUE, [m \in DOMAIN fs \ {n} |-> fs[m]], clock)

RemoveDir ==
    /\ dirExists
    /\ DirChange(FALSE, EmptyDir, clock)

MakeDir ==
    /\ ~dirExists
    /\ DirChange(TRUE, EmptyDir, clock)

\* What can be written under a name: a workbook (readable or not) under a
\* workbook name, something that is no workbook under the others.
ContentsFor(n) == IF n \in EligibleNames THEN Contents ELSE {0}

\* The files that come and go while the service runs: the workbook being
\* exported and the lock file Excel keeps next to it.
Exported == {NameA, NameTmp}

Environment ==
    \/ \E n \in Exported : \E c \in ContentsFor(n) : WriteFile(n, c)
    \/ \E n \in Exported : DeleteFile(n)
    \/ RemoveDir
    \/ MakeDir

----------------------------------------------------------------------------
(* Requests.  A request is dispatched to one operation and then runs it    *)
(* statement by statement; the directory may change between any two        *)
(* statements, and under the threaded server so may the cache.             *)

Triple(n) == <<n, fs[n].size, fs[n].mtime>>

\* Reference counting: a DataFrame that neither the cache nor a local of a
\* request refers to is freed.
Live(c, rqs) == {c.raw_data} \cup {rqs[q].raw_data : q \in Requests} \cup {rqs[q].df : q \in Requests}
Collect(h, c, rqs) == [i \in DOMAIN h \cap Live(c, rqs) |-> h[i]]

\* The request's record once its call is over: the locals are gone.
Leave(rq) ==
    [rq EXCEPT !.pc = "idle", !.files = <<>>, !.infos = <<>>, !.df_list = <<>>,
               !.current_hash = None, !.current_time = 0, !.raw_data = 0,
               !.old_cache = EmptyCache, !.df = 0, !.pass = 0, !.left = None]

\* An exception leaves get_raw_data, and with it the operation that called it.
RaiseInGet(rq, e) ==
    [Leave(rq) EXCEPT !.gret = [kind |-> "raise", val |-> 0, err |-> e, hit |-> FALSE],
                      !.ret = [kind |-> "raise", val |-> 0, err |-> e, hit |-> FALSE]]

\* get_raw_data returns val: to the caller of the repository, or to the
\* CycleService method that goes on with _apply_filters.
ReturnFromGet(rq, val, hit) ==
    IF rq.op = "agg"
    THEN [rq EXCEPT !.pc = "apply_filters", !.df = val,
                    !.files = <<>>, !.infos = <<>>, !.df_list = <<>>,
                    !.current_hash = None, !.current_time = 0, !.raw_data = 0,
                    !.gret = [kind |-> "ok", val |-> val, err |-> "", hit |-> hit]]
    ELSE [Leave(rq) EXCEPT !.gret = [kind |-> "ok", val |-> val, err |-> "", hit |-> hit],
                           !.ret = [kind |-> "ok", val |-> val, err |-> "", hit |-> hit]]

\* A request arrives and is routed to an operation.
Dispatch(r, op, pc) ==
    /\ req[r].pc = "idle"
    /\ op = "status" \/ calls < MaxCalls
    /\ calls' = (IF op = "status" THEN calls ELSE calls + 1)
    /\ req' = [q \in Requests |->
                IF q = r
                THEN [IdleRequest EXCEPT !.op = op, !.pc = pc, !.cid = calls + 1,
                                         !.pre = cache, !.quiet0 = quiet,
                                         !.handed0 = handed,
                                         !.polls = req[r].polls +
                                                     (IF op = "status" THEN 1 ELSE 0),
                                         !.before =
                                             IF req[r].op = "status"
                                             THEN Some([cache |-> req[r].pre,
                                                        status |-> req[r].status])
                                             ELSE None]
                ELSE IF req[q].pc = "idle" THEN IdleRequest ELSE req[q]]
    /\ quiet' = (IF op = "clear" THEN "no" ELSE quiet)
    /\ handed' = (IF op = "clear" THEN 0 ELSE handed)
    /\ UNCHANGED <<dirExists, fs, clock, cache, heap, stored, hashed, fsops, svc>>

\* GET on a repository endpoint that returns the dataset itself
get_raw_data_call(r) == Dispatch(r, "get", "hash_glob")

\* Any CycleService aggregation: get_raw_data, then _apply_filters
aggregation_call(r) == Dispatch(r, "agg", "hash_glob")

\* POST /clear_cache
clear_cache_call(r) == Dispatch(r, "clear", "clear_copy")

\* GET /cache_status.  It builds no DataFrame, so it takes no number of its
\* own from the count of the calls that may.
get_cache_status_call(r) ==
    /\ req[r].polls < MaxPolls
    /\ Dispatch(r, "status", "status_read")

(* _get_files_hash *)

\* all_files = glob.glob(...), without the '~$' files
get_files_hash_glob(r) ==
    /\ req[r].pc = "hash_glob"
    /\ \E o \in Orders(ValidFiles(GlobXlsx(dirExists, fs))) :
          req' = [req EXCEPT ![r] = [@ EXCEPT !.pc = "hash_stat", !.files = o,
                                              !.infos = <<>>, !.scan = o]]
    /\ UNCHANGED <<dirExists, fs, clock, cache, heap, calls, stored, hashed, quiet, handed, fsops, svc>>

\* One turn of the loop: os.stat(filename), which raises when the file has
\* gone since the scan.
get_files_hash_stat(r) ==
    /\ req[r].pc = "hash_stat"
    /\ req[r].files # <<>>
    /\ LET rq == req[r]
           n == Head(rq.files)
       IN  req' = [req EXCEPT ![r] =
                    IF n \in DOMAIN fs
                    THEN [rq EXCEPT !.files = Tail(rq.files),
                                    !.infos = Append(rq.infos, FileInfo(n, fs[n])),
                                    !.statted = rq.statted \cup {Triple(n)}]
                    ELSE RaiseInGet(rq, "FileNotFoundError")]
    /\ UNCHANGED <<dirExists, fs, clock, cache, heap, calls, stored, hashed, quiet, handed, fsops, svc>>

\* return hash(tuple(sorted(files_info))), and the caller's
\* current_time = datetime.now()
get_files_hash_return(r) ==
    /\ req[r].pc = "hash_stat"
    /\ req[r].files = <<>>
    /\ req[r].op # "status"
    /\ req' = [req EXCEPT ![r] =
                [@ EXCEPT !.pc = "check_raw", !.infos = <<>>,
                          !.current_hash = Some(HashOfInfos(req[r].infos)),
                          !.fp = Some(HashOfInfos(req[r].infos)),
                          !.current_time = clock]]
    /\ UNCHANGED <<dirExists, fs, clock, cache, heap, calls, stored, hashed, quiet, handed, fsops, svc>>

(* get_raw_data *)

\* if self._cache['raw_data'] is not None and ...
get_raw_data_check_raw(r) ==
    /\ req[r].pc = "check_raw"
    /\ req' = [req EXCEPT ![r].pc = IF cache.raw_data # 0 THEN "check_hash" ELSE "load_glob"]
    /\ UNCHANGED <<dirExists, fs, clock, cache, heap, calls, stored, hashed, quiet, handed, fsops, svc>>

\* Fault variant: the fingerprint comparison left out of the condition.
HashMatchesAlways(c, current_hash) == TRUE

\* self._cache['files_hash'] == current_hash
HashMatches(c, current_hash) == c.files_hash = current_hash

\* ... and self._cache['files_hash'] == current_hash
get_raw_data_check_hash(r) ==
    /\ req[r].pc = "check_hash"
    /\ req' = [req EXCEPT ![r].pc =
                IF HashMatches(cache, req[r].current_hash) THEN "hit" ELSE "load_glob"]
    /\ UNCHANGED <<dirExists, fs, clock, cache, heap, calls, stored, hashed, quiet, handed, fsops, svc>>

\* return self._cache['raw_data']
get_raw_data_hit(r) ==
    /\ req[r].pc = "hit"
    /\ req' = [req EXCEPT ![r] = ReturnFromGet(req[r], cache.raw_data, TRUE)]
    /\ quiet' = (IF req[r].dirty THEN "return" ELSE "call")
    /\ handed' = cache.raw_data
    /\ heap' = Collect(heap, cache, req')
    /\ stored' = Collect(stored, cache, req')
    /\ UNCHANGED <<dirExists, fs, clock, cache, calls, hashed, fsops, svc>>

(* _load_excel_files *)

\* The second scan of the directory, and the error when it finds nothing.
load_excel_files_glob(r) ==
    /\ req[r].pc = "load_glob"
    /\ LET rq == [req[r] EXCEPT !.loaded = TRUE]
           all_files == ValidFiles(GlobXlsx(dirExists, fs))
       IN  IF all_files = {}
           THEN req' = [req EXCEPT ![r] = RaiseInGet(rq, "ValueError")]
           ELSE \E o \in Orders(all_files) :
                  req' = [req EXCEPT ![r] = [rq EXCEPT !.pc = "load_read", !.files = o,
                                                       !.df_list = <<>>,
                                                       !.listed = all_files]]
    /\ UNCHANGED <<dirExists, fs, clock, cache, heap, calls, stored, hashed, quiet, handed, fsops, svc>>

\* Fault variant: the except clause logs the error and goes on with the next
\* file instead of raising again.
load_excel_files_read_skipping(r) ==
    /\ req[r].pc = "load_read"
    /\ req[r].files # <<>>
    /\ LET rq == req[r]
           n == Head(rq.files)
       IN  req' = [req EXCEPT ![r] =
                    IF n \in DOMAIN fs /\ fs[n].content # 0
                    THEN [rq EXCEPT !.files = Tail(rq.files),
                                    !.df_list = Append(rq.df_list, ReadExcel(n, fs[n])),
                                    !.read = rq.read \cup {Triple(n)}]
                    ELSE [rq EXCEPT !.files = Tail(rq.files)]]
    /\ UNCHANGED <<dirExists, fs, clock, cache, heap, calls, stored, hashed, quiet, handed, fsops, svc>>

\* One turn of the loop: pd.read_excel(filename, usecols=[...]); whatever it
\* raises is logged and raised again.
load_excel_files_read(r) ==
    /\ req[r].pc = "load_read"
    /\ req[r].files # <<>>
    /\ LET rq == req[r]
           n == Head(rq.files)
       IN  req' = [req EXCEPT ![r] =
                    IF n \in DOMAIN fs /\ fs[n].content # 0
                    THEN [rq EXCEPT !.files = Tail(rq.files),
                                    !.df_list = Append(rq.df_list, ReadExcel(n, fs[n])),
                                    !.read = rq.read \cup {Triple(n)}]
                    ELSE RaiseInGet(rq, "ReadError")]
    /\ UNCHANGED <<dirExists, fs, clock, cache, heap, calls, stored, hashed, quiet, handed, fsops, svc>>

\* combined_df = pd.concat(df_list, ignore_index=True); return combined_df:
\* a new DataFrame object, bound to get_raw_data's raw_data.
load_excel_files_concat(r) ==
    /\ req[r].pc = "load_read"
    /\ req[r].files = <<>>
    /\ heap' = [i \in DOMAIN heap \cup {req[r].cid} |->
                 IF i = req[r].cid THEN Concat(req[r].df_list) ELSE heap[i]]
    /\ stored' = [i \in DOMAIN stored \cup {req[r].cid} |->
                 IF i = req[r].cid
                 THEN [rows |-> Concat(req[r].df_list), read |-> req[r].read,
                       listed |-> req[r].listed, fp |-> req[r].fp]
                 ELSE stored[i]]
    /\ req' = [req EXCEPT ![r] = [@ EXCEPT !.pc = "store_raw", !.df_list = <<>>,
                                           !.raw_data = req[r].cid]]
    /\ UNCHANGED <<dirExists, fs, clock, cache, calls, hashed, quiet, handed, fsops, svc>>

(* get_raw_data, after the load *)

\* self._cache['raw_data'] = raw_data
get_raw_data_store_raw(r) ==
    /\ req[r].pc = "store_raw"
    /\ cache' = [cache EXCEPT !.raw_data = req[r].raw_data]
    /\ req' = [req EXCEPT ![r].pc = "store_hash"]
    /\ heap' = Collect(heap, cache', req')
    /\ stored' = Collect(stored, cache', req')
    /\ UNCHANGED <<dirExists, fs, clock, calls, hashed, quiet, handed, fsops, svc>>

StoreHash(c, current_hash) == [c EXCEPT !.files_hash = current_hash]

\* self._cache['files_hash'] = current_hash
get_raw_data_store_hash(r) ==
    /\ req[r].pc = "store_hash"
    /\ cache' = StoreHash(cache, req[r].current_hash)
    /\ hashed' = [set |-> req[r].statted, scan |-> req[r].scan]
    /\ req' = [req EXCEPT ![r].pc = "store_check"]
    /\ UNCHANGED <<dirExists, fs, clock, heap, calls, stored, quiet, handed, fsops, svc>>

\* self._cache['last_check'] = current_time; return raw_data
get_raw_data_store_check(r) ==
    /\ req[r].pc = "store_check"
    /\ cache' = [cache EXCEPT !.last_check = req[r].current_time]
    /\ req' = [req EXCEPT ![r] = ReturnFromGet(req[r], req[r].raw_data, FALSE)]
    /\ quiet' = (IF req[r].dirty THEN "return" ELSE "call")
    /\ handed' = req[r].raw_data
    /\ heap' = Collect(heap, cache', req')
    /\ stored' = Collect(stored, cache', req')
    /\ UNCHANGED <<dirExists, fs, clock, calls, hashed, fsops, svc>>

(* clear_cache *)

\* old_cache = self._cache.copy()
clear_cache_copy(r) ==
    /\ req[r].pc = "clear_copy"
    /\ req' = [req EXCEPT ![r] = [@ EXCEPT !.pc = "clear_raw", !.old_cache = cache]]
    /\ UNCHANGED <<dirExists, fs, clock, cache, heap, calls, stored, hashed, quiet, handed, fsops, svc>>

\* self._cache['raw_data'] = None
clear_cache_raw(r) ==
    /\ req[r].pc = "clear_raw"
    /\ cache' = [cache EXCEPT !.raw_data = 0]
    /\ req' = [req EXCEPT ![r].pc = "clear_processed"]
    /\ heap' = Collect(heap, cache', req')
    /\ stored' = Collect(stored, cache', req')
    /\ UNCHANGED <<dirExists, fs, clock, calls, hashed, quiet, handed, fsops, svc>>

\* self._cache['processed_data'] = None
clear_cache_processed(r) ==
    /\ req[r].pc = "clear_processed"
    /\ cache' = [cache EXCEPT !.processed_data = 0]
    /\ req' = [req EXCEPT ![r].pc = "clear_hash"]
    /\ UNCHANGED <<dirExists, fs, clock, heap, calls, stored, hashed, quiet, handed, fsops, svc>>

\* self._cache['files_hash'] = None
clear_cache_hash(r) ==
    /\ req[r].pc = "clear_hash"
    /\ cache' = [cache EXCEPT !.files_hash = None]
    /\ hashed' = NothingHashed
    /\ req' = [req EXCEPT ![r].pc = "clear_check"]
    /\ UNCHANGED <<dirExists, fs, clock, heap, calls, stored, quiet, handed, fsops, svc>>

\* Fault variant: had_data read from the cache after it has been reset.
HadDataAfterReset(old_cache) == 0

\* had_data = old_cache['raw_data'] is not None
HadData(old_cache) == IF old_cache.raw_data # 0 THEN 1 ELSE 0

\* self._cache['last_check'] = None, and the returned record:
\* val is had_raw_data (1 for true, 0 for false)
clear_cache_check(r) ==
    /\ req[r].pc = "clear_check"
    /\ cache' = [cache EXCEPT !.last_check = 0]
    /\ req' = [req EXCEPT ![r] =
                [Leave(req[r]) EXCEPT !.ret = [kind |-> "ok", val |-> HadData(req[r].old_cache),
                                               err |-> "", hit |-> FALSE]]]
    /\ UNCHANGED <<dirExists, fs, clock, heap, calls, stored, hashed, quiet, handed, fsops, svc>>

(* get_cache_status: the dict is built key by key, in the order written *)

\* Fault variant: the status call records the fingerprint it computed.
CacheRefreshedByStatus(c, current_hash) == [c EXCEPT !.files_hash = current_hash]

\* get_cache_status assigns to no key of self._cache.
CacheAfterStatus(c, current_hash) == c

\* 'has_raw_data', 'has_processed_data', 'last_check', 'files_hash': read
\* from the cache; then 'current_files_hash': self._get_files_hash()
get_cache_status_read(r) ==
    /\ req[r].pc = "status_read"
    /\ req' = [req EXCEPT ![r] =
                [@ EXCEPT !.pc = "hash_glob", !.pass = 1,
                          !.status = [NoStatus EXCEPT
                              !.has_raw_data = cache.raw_data # 0,
                              !.has_processed_data = cache.processed_data # 0,
                              !.last_check = cache.last_check,
                              !.files_hash = cache.files_hash]]]
    /\ UNCHANGED <<dirExists, fs, clock, cache, heap, calls, stored, hashed, quiet, handed, fsops, svc>>

\* _get_files_hash returns to get_cache_status: the value of
\* 'current_files_hash' the first time, the right-hand side of the comparison
\* of 'cache_valid' the second time, which ends the dict.
get_cache_status_hash(r) ==
    /\ req[r].pc = "hash_stat"
    /\ req[r].files = <<>>
    /\ req[r].op = "status"
    /\ LET rq == req[r]
           h == Some(HashOfInfos(rq.infos))
       IN  /\ req' = [req EXCEPT ![r] =
                 IF rq.pass = 1
                 THEN [rq EXCEPT !.pc = "status_valid", !.infos = <<>>,
                                 !.status = [@ EXCEPT !.current_files_hash = h]]
                 ELSE [Leave(rq) EXCEPT
                          !.status = [@ EXCEPT !.cache_valid = (rq.left = h)],
                          !.ret = [kind |-> "ok", val |-> 0, err |-> "", hit |-> FALSE]]]
           /\ cache' = CacheAfterStatus(cache, h)
    /\ UNCHANGED <<dirExists, fs, clock, heap, calls, stored, hashed, quiet, handed, fsops, svc>>

\* 'cache_valid': self._cache['raw_data'] is not None and ...: without a
\* dataset the value is False and the dict is complete; with one, the cached
\* fingerprint is read and _get_files_hash is called again.
get_cache_status_valid(r) ==
    /\ req[r].pc = "status_valid"
    /\ req' = [req EXCEPT ![r] =
                IF cache.raw_data = 0
                THEN [Leave(req[r]) EXCEPT
                         !.status = [@ EXCEPT !.cache_valid = FALSE],
                         !.ret = [kind |-> "ok", val |-> 0, err |-> "", hit |-> FALSE]]
                ELSE [req[r] EXCEPT !.pc = "hash_glob", !.pass = 2,
                                    !.left = cache.files_hash]]
    /\ UNCHANGED <<dirExists, fs, clock, cache, heap, calls, stored, hashed, quiet, handed, fsops, svc>>

(* CycleService._apply_filters, on the DataFrame get_raw_data returned *)

\* df['DataHoraInicio'] = pd.to_datetime(df['DataHoraInicio'], errors='coerce'):
\* the column of the frame itself is replaced.
ConvertDates(rows) ==
    [i \in DOMAIN rows |-> [rows[i] EXCEPT !.DataHoraInicio = ToDatetime(@)]]

\* The column assignment is the only statement of an aggregation that writes
\* to the frame it was given: dropna and the boolean selections that follow
\* build new frames.  A df of None has no .columns and raises.
apply_filters(r) ==
    /\ req[r].pc = "apply_filters"
    /\ IF req[r].df = 0
       THEN /\ req' = [req EXCEPT ![r] =
                        [Leave(req[r]) EXCEPT !.ret = [kind |-> "raise", val |-> 0,
                                                       err |-> "AttributeError", hit |-> FALSE]]]
            /\ UNCHANGED <<heap, stored>>
       ELSE /\ req' = [req EXCEPT ![r] =
                        [Leave(req[r]) EXCEPT !.ret = [kind |-> "ok", val |-> req[r].df,
                                                       err |-> "", hit |-> FALSE]]]
            /\ heap' = Collect([heap EXCEPT ![req[r].df] = ConvertDates(@)], cache, req')
            /\ stored' = Collect(stored, cache, req')
    /\ UNCHANGED <<dirExists, fs, clock, cache, calls, hashed, quiet, handed, fsops, svc>>

----------------------------------------------------------------------------
(* Specifications *)

\* The statements of the operations in progress.
Step(r) ==
    \/ get_files_hash_glob(r)
    \/ get_files_hash_stat(r)
    \/ get_files_hash_return(r)
    \/ get_raw_data_check_raw(r)
    \/ get_raw_data_check_hash(r)
    \/ get_raw_data_hit(r)
    \/ load_excel_files_glob(r)
    \/ load_excel_files_read(r)
    \/ load_excel_files_concat(r)
    \/ get_raw_data_store_raw(r)
    \/ get_raw_data_store_hash(r)
    \/ get_raw_data_store_check(r)
    \/ clear_cache_copy(r)
    \/ clear_cache_raw(r)
    \/ clear_cache_processed(r)
    \/ clear_cache_hash(r)
    \/ clear_cache_check(r)
    \/ apply_filters(r)

\* main.py: the FastAPI handlers are coroutines that call the service without
\* awaiting anything, so the event loop runs one request to its end before it
\* starts the next.
Next ==
    \/ Environment
    \/ \E r \in EventLoop : get_raw_data_call(r)
    \/ \E r \in EventLoop : aggregation_call(r)
    \/ \E r \in EventLoop : clear_cache_call(r)
    \/ \E r \in EventLoop : Step(r)

Spec == Init /\ [][Next]_vars

\* app.py: Flask's server handles each request on a thread of its own, so the
\* statements of two requests interleave.
NextThreaded ==
    \/ \E c \in Contents : WriteFile(NameA, c)
    \/ \E r \in Requests : calls < MaxThreadedCalls /\ get_raw_data_call(r)
    \/ \E r \in Requests : calls < MaxThreadedCalls /\ aggregation_call(r)
    \/ \E r \in Requests : calls < MaxThreadedCalls /\ clear_cache_call(r)
    \/ \E r \in Requests : Step(r)

\* The races between threads are studied on a directory of one workbook.
InitThreaded == Init /\ dirExists /\ DOMAIN fs = {NameA}

SpecThreaded == InitThreaded /\ [][NextThreaded]_vars

\* The statements of get_raw_data and of get_cache_status.
StepStatus(r) ==
    \/ get_files_hash_glob(r)
    \/ get_files_hash_stat(r)
    \/ get_files_hash_return(r)
    \/ get_raw_data_check_raw(r)
    \/ get_raw_data_check_hash(r)
    \/ get_raw_data_hit(r)
    \/ load_excel_files_glob(r)
    \/ load_excel_files_read(r)
    \/ load_excel_files_concat(r)
    \/ get_raw_data_store_raw(r)
    \/ get_raw_data_store_hash(r)
    \/ get_raw_data_store_check(r)
    \/ get_cache_status_read(r)
    \/ get_cache_status_hash(r)
    \/ get_cache_status_valid(r)

\* The event loop of main.py serving GET /cache_status between the requests
\* that read the dataset.
NextStatus ==
    \/ \E c \in Contents : WriteFile(NameA, c)
    \/ DeleteFile(NameA)
    \/ \E r \in EventLoop : get_raw_data_call(r)
    \/ \E r \in EventLoop : get_cache_status_call(r)
    \/ \E r \in EventLoop : StepStatus(r)

\* The status is studied on a directory with the workbook being exported:
\* written again, made unreadable or removed while the service runs.
SpecStatus == InitThreaded /\ [][NextStatus]_vars

----------------------------------------------------------------------------
(* The functions of CycleService and of app.py on the rows of the dataset. *)
(* An instant is written as the number MDHS: month M, day D of the month,  *)
(* hour H of the day and a position S within the hour, so that the month   *)
(* of t is t \div 1000, its date t \div 100 and its hour bucket t \div 10; *)
(* a date is written MD.  A column value is None (null) or Some(value).    *)

MaxRows == 4

\* The rows the datasets are made of.  Rows 1 to 3 lie on one day in two
\* hour buckets; row 4 lies on midnight of the next day; rows 5 to 7 lie in
\* the next month; row 7 carries its instant as text, row 8 a text that is
\* no date; row 9 has no mass, row 10 no input type; rows 3 and 4 carry the
\* placeholder and the blank equipment tag.
Row(id, ts, ti, ft, fc, tc, ma, at, mt) ==
    [ id |-> id, DataHoraInicio |-> ts, TipoInput |-> ti, FrotaTransporte |-> ft,
      FrotaCarga |-> fc, TagCarga |-> tc, Massa |-> ma, TipoDeAtividade |-> at,
      Material |-> mt ]

SampleRows ==
    << Row(1, TsCell(1100), Some("Ore"), Some("T1"), Some("L1"), Some("E1"), Some(1000), Some("A"), Some("M1")),
       Row(2, TsCell(1101), Some("Ore"), Some("T1"), Some("L2"), Some("E1"), Some(2000), Some("B"), Some("M2")),
       Row(3, TsCell(1110), Some("Waste"), Some("T2"), Some("L1"), Some("-"), Some(3000), Some("A"), Some("M3")),
       Row(4, TsCell(1200), Some("Ore"), Some("T1"), None, Some(" "), Some(500), Some("A"), Some("M4")),
       Row(5, TsCell(2100), Some("Waste"), None, Some("L1"), Some("E2"), Some(300), Some("B"), Some("M1")),
       Row(6, TsCell(2110), Some("Ore"), Some("-"), Some("L2"), None, Some(100), Some("C"), Some("M2")),
       Row(7, TextCell(2200), Some("Ore"), Some("T1"), Some("L1"), Some("E1"), Some(712), Some("C"), Some("M3")),
       Row(8, TextCell(0), Some("Ore"), Some("T1"), Some("L1"), Some("E1"), Some(900), Some("A"), Some("M1")),
       Row(9, TsCell(1201), Some("Ore"), Some("T1"), Some("L1"), Some("E2"), None, Some("B"), Some("M2")),
       Row(10, TsCell(1210), None, Some("T2"), Some("L2"), Some("E2"), Some(400), Some("C"), Some("M4")),
       Row(11, NaT, Some("Ore"), Some("T1"), Some("L1"), Some("E1"), Some(600), Some("A"), Some("M1")),
       Row(12, TsCell(1110), Some("Ore"), Some("T1"), Some("L1"), Some("E1"), Some(0), Some("A"), Some("M1")) >>

\* The rows with the given ids, in the order of the workbook.
RECURSIVE RowsOf(_)
RowsOf(ids) ==
    IF ids = {} THEN <<>>
    ELSE LET m == CHOOSE x \in ids : \A y \in ids : x <= y
         IN  <<SampleRows[m]>> \o RowsOf(ids \ {m})

Datasets == {RowsOf(ids) : ids \in {S \in SUBSET DOMAIN SampleRows : Cardinality(S) <= MaxRows}}

\* DateRangeDTO, as the service receives it: the dates are None or a date
\* 'YYYY-MM-DD', the lists are sets (the empty set for None and for []).
Filter(di, df, ti, ft, fc, tc) ==
    [ data_inicio |-> di, data_fim |-> df, tipos_input |-> ti,
      frota_transporte |-> ft, frota_carga |-> fc, tag_carga |-> tc ]

\* The text of a date bound: a date, with a time of day or without.
Bound(d, t) == [date |-> d, time |-> t]
Day(d) == Some(Bound(d, None))
At(d, t) == Some(Bound(d, Some(t)))

\* What a client sends: the bounds as texts, the lists already split.
SampleQueries ==
    { Filter(b[1], b[2], c[1], c[2], c[3], c[4]) :
        b \in { <<None, None>>, <<Day(12), None>>, <<None, Day(12)>>, <<Day(12), Day(12)>>,
                <<At(12, 1), None>>, <<None, At(12, 1)>> },
        c \in { <<{}, {}, {}, {}>>, <<{"Ore"}, {}, {}, {}>>, <<{"Gold"}, {}, {}, {}>>,
                <<{"Ore", "Waste"}, {}, {}, {}>>,
                <<{}, {"T1"}, {}, {}>>, <<{}, {}, {"L1"}, {}>>, <<{}, {}, {}, {"E1"}>>,
                <<{"Ore"}, {}, {"L1"}, {}>> } }

\* A bound read as the last instant of its date instead.
DateToEndOfDay(b) == b.date * 100 + 99

\* pd.to_datetime of the text of a bound, and datetime.strptime of it: the
\* instant it names, midnight when it has no time of day.
DateToDatetime(b) == b.date * 100 + (IF b.time = None THEN 0 ELSE b.time[1])

\* DateRangeDTO.validate_date_format: the text is parsed and written again
\* with strftime('%Y-%m-%d').
validate_date_format(v) ==
    IF v = None THEN v
    ELSE LET parsed_date == DateToDatetime(v[1])
         IN  Day(parsed_date \div 100)

\* DateRangeDTO(data_inicio=..., ...) as the controller builds it
DateRangeDTO(q) ==
    Filter(validate_date_format(q.data_inicio), validate_date_format(q.data_fim),
           q.tipos_input, q.frota_transporte, q.frota_carga, q.tag_carga)

SampleFilters == {DateRangeDTO(q) : q \in SampleQueries}

\* The variant that takes a list as the values to leave out.
IsOutside(cell, values) == cell = None \/ cell[1] \notin values

\* Series.isin(values): a null is in no list
IsIn(cell, values) == cell # None /\ cell[1] \in values

\* df.dropna(subset=['DataHoraInicio']) after the conversion
HasDate(r) == r.DataHoraInicio.k = "ts"

\* CycleService._apply_filters, as a function of the rows: what it returns.
\* (What it does to the frame it is given is the action apply_filters.)
ApplyFilters(rows, filters) ==
    LET converted == ConvertDates(rows)
        dated == SelectSeq(converted, HasDate)
        from ==
            IF filters.data_inicio # None
            THEN SelectSeq(dated, LAMBDA r :
                     r.DataHoraInicio.v >= DateToDatetime(filters.data_inicio[1]))
            ELSE dated
        upto ==
            IF filters.data_fim # None
            THEN SelectSeq(from, LAMBDA r :
                     r.DataHoraInicio.v <= DateToDatetime(filters.data_fim[1]))
            ELSE from
        inputs ==
            IF filters.tipos_input # {}
            THEN SelectSeq(upto, LAMBDA r : IsIn(r.TipoInput, filters.tipos_input))
            ELSE upto
        fleets ==
            IF filters.frota_transporte # {}
            THEN SelectSeq(inputs, LAMBDA r : IsIn(r.FrotaTransporte, filters.frota_transporte))
            ELSE inputs
    IN  fleets

\* dt.to_period('M'), dt.date and dt.floor('h') of a row's instant
Month(r) == r.DataHoraInicio.v \div 1000
Date(r) == r.DataHoraInicio.v \div 100
HourBucket(r) == r.DataHoraInicio.v \div 10

\* df[col]
Column(r, col) ==
    CASE col = "Tipo Input" -> r.TipoInput
      [] col = "Frota transporte" -> r.FrotaTransporte
      [] col = "Frota carga" -> r.FrotaCarga
      [] col = "Tag carga" -> r.TagCarga
      [] col = "Massa" -> r.Massa
      [] col = "Tipo de atividade" -> r.TipoDeAtividade
      [] col = "Material" -> r.Material

\* df.dropna(subset=cols), for columns other than DataHoraInicio
DropNa(rows, cols) == SelectSeq(rows, LAMBDA r : \A c \in cols : Column(r, c) # None)

RowSet(rows) == {rows[i] : i \in DOMAIN rows}

\* Series.sum() of the Massa of a set of rows
RECURSIVE SumMassa(_)
SumMassa(S) ==
    IF S = {} THEN 0
    ELSE LET r == CHOOSE x \in S : TRUE
         IN  r.Massa[1] + SumMassa(S \ {r})

\* Python's order on the strings that occur as values: their position here.
StrOrder ==
    << " ", "-", "A", "B", "C", "E1", "E2", "Gold", "L1", "L2", "M1", "M2", "M3", "M4",
       "Ore", "Outros", "T1", "T2", "Waste" >>

StrRank(x) == CHOOSE i \in DOMAIN StrOrder : StrOrder[i] = x

\* sort_values: the elements of S in ascending order of their (distinct)
\* keys, key being a function on S
SortedBy(S, key) ==
    [i \in 1..Cardinality(S) |->
        CHOOSE x \in S : Cardinality({y \in S : key[y] < key[x]}) = i - 1]

\* A number that need not be whole: num / den
Frac(n, d) == [num |-> n, den |-> d]

\* df.groupby(['AnoMes', col]).agg({'Massa': 'sum', 'DataHoraInicio': 'count'}),
\* sorted by period and category; the field categoria stands for the field
\* the method names after its column (tipo_atividade, material, ...).
GroupProduction(rows, col) ==
    LET S == RowSet(rows)
        keys == {<<Month(r), Column(r, col)[1]>> : r \in S}
        of(k) == {r \in S : Month(r) = k[1] /\ Column(r, col)[1] = k[2]}
        recs == { [ano_mes |-> k[1], categoria |-> k[2],
                    massa_total |-> SumMassa(of(k)), count |-> Cardinality(of(k))] : k \in keys }
    IN  SortedBy(recs, [x \in recs |-> x.ano_mes * 100 + StrRank(x.categoria)])

\* CycleService.get_production_by_activity_type, _by_material_spec,
\* _by_material, _by_frota_transporte, _by_frota_carga and _by_maquinas_carga:
\* one body, with a column of its own each.
ProductionBy(rows, filters, col) ==
    LET df == ApplyFilters(rows, filters)
    IN  IF Len(df) = 0 THEN <<>>
        ELSE GroupProduction(DropNa(df, {col, "Massa", "Tipo Input"}), col)

\* Series.pct_change() * 100 of one value after the one before it, and
\* fillna(0)
PctChange(prev, cur) ==
    IF prev = 0
    THEN (IF cur = 0 THEN [k |-> "nan"] ELSE [k |-> "inf"])
    ELSE [k |-> "num", num |-> 100 * (cur - prev), den |-> prev]

\* The variant without fillna: the value is left as it is.
KeepNa(g) == g

FillNa(g) == IF g.k = "nan" THEN [k |-> "num", num |-> 0, den |-> 1] ELSE g

\* The variant that reports a set without rows as one period of zeros.
ProductivityAnalysisZeroPeriod(rows, filters) ==
    IF DropNa(ApplyFilters(rows, filters), {"Massa", "Tipo Input"}) = <<>>
    THEN << [ ano_mes |-> 0, toneladas_total |-> Frac(0, 1000),
              produtividade_media_ton_h |-> Frac(0, 1000 * 24 * 30),
              crescimento_toneladas_pct |-> FillNa([k |-> "nan"]),
              horas_trabalhadas |-> 24 * 30 ] >>
    ELSE <<>>

\* CycleService.get_productivity_analysis
ProductivityAnalysis(rows, filters) ==
    LET df == ApplyFilters(rows, filters)
        S == RowSet(DropNa(df, {"Massa", "Tipo Input"}))
        months == SortedBy({Month(r) : r \in S}, [m \in {Month(r) : r \in S} |-> m])
        massa_total(i) == SumMassa({r \in S : Month(r) = months[i]})
        horas_trabalhadas == 24 * 30
    IN  IF Len(df) = 0 THEN <<>>
        ELSE [i \in DOMAIN months |->
                [ ano_mes |-> months[i],
                  toneladas_total |-> Frac(massa_total(i), 1000),
                  produtividade_media_ton_h |-> Frac(massa_total(i), 1000 * horas_trabalhadas),
                  crescimento_toneladas_pct |->
                      IF i = 1 THEN FillNa([k |-> "nan"])
                      ELSE FillNa(PctChange(massa_total(i - 1), massa_total(i))),
                  horas_trabalhadas |-> horas_trabalhadas ]]

\* CycleService.get_productivity_by_equipment
ProductivityByEquipment(rows, filters) ==
    LET df == ApplyFilters(rows, filters)
        S == RowSet(DropNa(df, {"Massa", "Tag carga"}))
        keys == {<<Date(r), r.TagCarga[1]>> : r \in S}
        of(k) == {r \in S : Date(r) = k[1] /\ r.TagCarga[1] = k[2]}
        horas_trabalhadas == 24
    IN  IF Len(df) = 0 THEN <<>>
        ELSE LET recs == { [ data |-> k[1], equipamento |-> k[2],
                          toneladas_por_hora |-> Frac(SumMassa(of(k)), 1000 * horas_trabalhadas),
                          total_toneladas |-> Frac(SumMassa(of(k)), 1000),
                          horas_trabalhadas |-> horas_trabalhadas ] : k \in keys }
             IN  SortedBy(recs, [x \in recs |-> x.data * 100 + StrRank(x.equipamento)])

\* The common opening of the views of app.py: the conversion of the dates,
\* dropna on the view's columns, then the date, input-type and
\* transport-fleet filters.
LegacyFilters(rows, filters, cols) ==
    LET dated == SelectSeq(ConvertDates(rows), HasDate)
        full == DropNa(dated, cols)
        from == IF filters.data_inicio = None THEN full
                ELSE SelectSeq(full, LAMBDA r :
                        r.DataHoraInicio.v >= DateToDatetime(filters.data_inicio[1]))
        upto == IF filters.data_fim = None THEN from
                ELSE SelectSeq(from, LAMBDA r :
                        r.DataHoraInicio.v <= DateToDatetime(filters.data_fim[1]))
        inputs == IF filters.tipos_input = {} THEN upto
                  ELSE SelectSeq(upto, LAMBDA r : IsIn(r.TipoInput, filters.tipos_input))
        fleets == IF filters.frota_transporte = {} THEN inputs
                  ELSE SelectSeq(inputs, LAMBDA r :
                          IsIn(r.FrotaTransporte, filters.frota_transporte))
    IN  fleets

\* str.strip() of a value of the dataset: of these only " " has blanks
Strip(x) == IF x = " " THEN "" ELSE x

\* The rows of a top-N view; the transport-fleet view leaves out the fleets
\* '-' and blank as well.
TopNRows(rows, filters, col) ==
    LET kept == LegacyFilters(rows, filters, {col, "Massa", "Tipo Input"})
    IN  IF col = "Frota transporte"
        THEN SelectSeq(kept, LAMBDA r :
                r.FrotaTransporte[1] # "-" /\ Strip(r.FrotaTransporte[1]) # "")
        ELSE kept

Categories(rows, col) == {Column(r, col)[1] : r \in RowSet(rows)}

\* df.groupby(col)['Massa'].sum()
TotalsBy(rows, col) ==
    [c \in Categories(rows, col) |-> SumMassa({r \in RowSet(rows) : Column(r, col)[1] = c})]

\* The variant that ranks ascending: the top_n categories of least total.
TopSetsAscending(rows, col, top_n) ==
    LET cats == Categories(rows, col)
        totals == TotalsBy(rows, col)
        size == IF Cardinality(cats) < top_n THEN Cardinality(cats) ELSE top_n
    IN  { T \in SUBSET cats :
            /\ Cardinality(T) = size
            /\ \A a \in T, b \in cats \ T : totals[a] <= totals[b] }

\* sort_values(ascending=False).head(top_n).index.tolist(): the order of
\* categories of equal total is the sorting routine's, so every choice of
\* top_n categories that leaves no larger total outside is possible.
TopSets(rows, col, top_n) ==
    LET cats == Categories(rows, col)
        totals == TotalsBy(rows, col)
        size == IF Cardinality(cats) < top_n THEN Cardinality(cats) ELSE top_n
    IN  { T \in SUBSET cats :
            /\ Cardinality(T) = size
            /\ \A a \in T, b \in cats \ T : totals[a] >= totals[b] }

\* lambda x: x if x in top_activities else 'Outros'
Agrupada(x, top) == IF x \in top THEN x ELSE "Outros"

\* The variant that leaves out the rows of the categories outside the top.
GroupTopOnly(rows, col, top) ==
    LET S == {r \in RowSet(rows) : Column(r, col)[1] \in top}
        keys == {<<Month(r), Column(r, col)[1]>> : r \in S}
        of(k) == {r \in S : Month(r) = k[1] /\ Column(r, col)[1] = k[2]}
        recs == { [ano_mes |-> k[1], categoria |-> k[2], massa_total |-> SumMassa(of(k))]
                     : k \in keys }
    IN  SortedBy(recs, [x \in recs |-> x.ano_mes * 100 + StrRank(x.categoria)])

\* df.groupby(['AnoMes', <col>_Agrupada'])['Massa'].sum(), sorted
GroupTop(rows, col, top) ==
    LET S == RowSet(rows)
        keys == {<<Month(r), Agrupada(Column(r, col)[1], top)>> : r \in S}
        of(k) == {r \in S : Month(r) = k[1] /\ Agrupada(Column(r, col)[1], top) = k[2]}
        recs == { [ano_mes |-> k[1], categoria |-> k[2], massa_total |-> SumMassa(of(k))]
                     : k \in keys }
    IN  SortedBy(recs, [x \in recs |-> x.ano_mes * 100 + StrRank(x.categoria)])

\* round(x, 2) and DataFrame.round(2) of p / q, in hundredths: to the nearest,
\* a tie to the even one.
Round2(p, q) ==
    LET f == (100 * p) \div q
        twice == 2 * ((100 * p) % q)
    IN  IF twice < q THEN f
        ELSE IF twice > q THEN f + 1
        ELSE IF f % 2 = 0 THEN f ELSE f + 1

RECURSIVE SumOver(_, _)
SumOver(S, f) ==
    IF S = {} THEN 0
    ELSE LET x == CHOOSE y \in S : TRUE
         IN  f[x] + SumOver(S \ {x}, f)

\* The per-day loop of get_processed_productivity_analysis: one record for
\* each date, tonnes and rate in hundredths.
DailyProductivity(rows) ==
    LET S == RowSet(rows)
        day(d) == {r \in S : Date(r) = d}
        horas_operacionais(d) == Cardinality({HourBucket(r) : r \in day(d)})
    IN  [d \in {Date(r) : r \in S} |->
            [ AnoMes |-> d \div 10,
              total_toneladas |-> Round2(SumMassa(day(d)), 1000),
              horas_operacionais |-> horas_operacionais(d),
              produtividade_ton_h |->
                  IF horas_operacionais(d) > 0
                  THEN Round2(SumMassa(day(d)), 1000 * horas_operacionais(d))
                  ELSE 0,
              total_ciclos |-> Cardinality(day(d)) ]]

\* The variant that divides the tonnes of the days by their hours.
RateOfTotals(daily, days) ==
    Round2(SumOver(days, [d \in DOMAIN daily |-> daily[d].total_toneladas]),
           100 * SumOver(days, [d \in DOMAIN daily |-> daily[d].horas_operacionais]))

\* 'produtividade_ton_h': 'mean' over the days of a month, and round(2)
MeanRate(daily, days) ==
    Round2(SumOver(days, [d \in DOMAIN daily |-> daily[d].produtividade_ton_h]),
           100 * Cardinality(days))

\* get_processed_productivity_analysis of app.py
LegacyProductivityAnalysis(rows, filters) ==
    LET df == LegacyFilters(rows, filters, {"Massa", "Tipo Input"})
        daily == DailyProductivity(df)
        months == SortedBy({daily[d].AnoMes : d \in DOMAIN daily},
                          [m \in {daily[d].AnoMes : d \in DOMAIN daily} |-> m])
        days(i) == {d \in DOMAIN daily : daily[d].AnoMes = months[i]}
        toneladas(i) == SumOver(days(i), [d \in DOMAIN daily |-> daily[d].total_toneladas])
        media(i) == MeanRate(daily, days(i))
    IN  IF Len(df) = 0 THEN <<>>
        ELSE [i \in DOMAIN months |->
                [ ano_mes |-> months[i],
                  toneladas_total |-> Frac(toneladas(i), 100),
                  produtividade_media_ton_h |-> Frac(media(i), 100),
                  horas_operacionais_total |->
                      SumOver(days(i), [d \in DOMAIN daily |-> daily[d].horas_operacionais]),
                  total_ciclos |->
                      SumOver(days(i), [d \in DOMAIN daily |-> daily[d].total_ciclos]),
                  crescimento_toneladas_pct |->
                      IF i = 1 THEN FillNa([k |-> "nan"])
                      ELSE FillNa(PctChange(toneladas(i - 1), toneladas(i))),
                  crescimento_prod_pct |->
                      IF i = 1 THEN FillNa([k |-> "nan"])
                      ELSE FillNa(PctChange(media(i - 1), media(i))) ]]

\* The variant that counts only the rows with a mass, as the mass views do.
CyclesWithMassByYearMonth(rows, filters) ==
    LET df == DropNa(ApplyFilters(rows, filters), {"Massa"})
        S == RowSet(df)
        months == {Month(r) : r \in S}
        sorted == SortedBy(months, [m \in months |-> m])
    IN  [i \in DOMAIN sorted |->
            [ ano_mes |-> sorted[i],
              count |-> Cardinality({r \in S : Month(r) = sorted[i]}) ]]

\* CycleService.get_cycles_by_year_month
CyclesByYearMonth(rows, filters) ==
    LET df == ApplyFilters(rows, filters)
        S == RowSet(df)
        months == {Month(r) : r \in S}
    IN  IF Len(df) = 0 THEN <<>>
        ELSE LET sorted == SortedBy(months, [m \in months |-> m])
             IN  [i \in DOMAIN sorted |->
                    [ ano_mes |-> sorted[i],
                      count |-> Cardinality({r \in S : Month(r) = sorted[i]}) ]]

\* round(x, 1) of p / q, in tenths: to the nearest, a tie to the even one.
Round1(p, q) ==
    LET f == (10 * p) \div q
        twice == 2 * ((10 * p) % q)
    IN  IF twice < q THEN f
        ELSE IF twice > q THEN f + 1
        ELSE IF f % 2 = 0 THEN f ELSE f + 1

\* The variant that takes every day as one of 24 hours.
HorasDoDia(S) == 24

\* len(eq_data['DataHora'].unique()): the distinct hours that hold a row
HorasOperacionais(S) == Cardinality({HourBucket(r) : r \in S})

\* get_processed_productivity_by_equipment of app.py: it has the date and the
\* transport-fleet filters only.  Tonnes and rates in hundredths, cycles per
\* hour in tenths.
LegacyProductivityByEquipment(rows, filters) ==
    LET dated == SelectSeq(ConvertDates(rows), HasDate)
        full == DropNa(dated, {"Massa", "Tag carga"})
        valid == SelectSeq(full, LAMBDA r :
                    r.TagCarga[1] # "-" /\ Strip(r.TagCarga[1]) # "")
        fleets == IF filters.frota_transporte = {} THEN valid
                  ELSE SelectSeq(valid, LAMBDA r :
                          IsIn(r.FrotaTransporte, filters.frota_transporte))
        from == IF filters.data_inicio = None THEN fleets
                ELSE SelectSeq(fleets, LAMBDA r :
                        r.DataHoraInicio.v >= DateToDatetime(filters.data_inicio[1]))
        upto == IF filters.data_fim = None THEN from
                ELSE SelectSeq(from, LAMBDA r :
                        r.DataHoraInicio.v <= DateToDatetime(filters.data_fim[1]))
        S == RowSet(upto)
        keys == {<<Date(r), r.TagCarga[1]>> : r \in S}
        eq_data(k) == {r \in S : Date(r) = k[1] /\ r.TagCarga[1] = k[2]}
        record(k) ==
            LET total_massa_kg == SumMassa(eq_data(k))
                total_ciclos == Cardinality(eq_data(k))
                horas_operacionais == HorasOperacionais(eq_data(k))
            IN  [ Data |-> k[1],
                  Equipamento |-> k[2],
                  total_toneladas |-> Frac(Round2(total_massa_kg, 1000), 100),
                  horas_operacionais |-> horas_operacionais,
                  toneladas_por_hora |->
                      IF horas_operacionais > 0
                      THEN Frac(Round2(total_massa_kg, 1000 * horas_operacionais), 100)
                      ELSE Frac(0, 100),
                  total_ciclos |-> total_ciclos,
                  ciclos_por_hora |->
                      IF horas_operacionais > 0
                      THEN Frac(Round1(total_ciclos, horas_operacionais), 10)
                      ELSE Frac(0, 10) ]
        recs == {record(k) : k \in keys}
    IN  IF Len(upto) = 0 THEN <<>>
        ELSE SortedBy(recs, [x \in recs |-> x.Data * 100 + StrRank(x.Equipamento)])

----------------------------------------------------------------------------
(* The functions applied to a dataset: svc holds the rows get_raw_data or
   load_data_with_cache returned, the query of the request, the filters the
   controller made of it (the functions of app.py get the query as it is),
   the function called and what it returned.  One call is made on each pair of a dataset
   and a filter. *)

Called(op, out) ==
    /\ svc.op = "none"
    /\ svc' = [svc EXCEPT !.op = op, !.out = out]
    /\ UNCHANGED <<dirExists, fs, clock, cache, heap, req, calls, stored, hashed, quiet,
                   handed, fsops>>

CycleService_apply_filters ==
    Called("_apply_filters", ApplyFilters(svc.rows, svc.filters))

get_production_by_activity_type ==
    Called("get_production_by_activity_type",
           ProductionBy(svc.rows, svc.filters, "Tipo de atividade"))

get_production_by_material ==
    Called("get_production_by_material", ProductionBy(svc.rows, svc.filters, "Material"))

get_production_by_frota_transporte ==
    Called("get_production_by_frota_transporte",
           ProductionBy(svc.rows, svc.filters, "Frota transporte"))

get_productivity_analysis ==
    Called("get_productivity_analysis", ProductivityAnalysis(svc.rows, svc.filters))

get_productivity_by_equipment ==
    Called("get_productivity_by_equipment", ProductivityByEquipment(svc.rows, svc.filters))

\* The top-N views of app.py: get_processed_production_by_activity_type
\* (top_n = 2), _by_material and _by_frota_transporte (top_n = 3)
TopNView(op, col, top_n) ==
    LET df == TopNRows(svc.rows, svc.query, col)
    IN  IF Len(df) = 0 THEN Called(op, <<>>)
        ELSE \E top \in TopSets(df, col, top_n) : Called(op, GroupTop(df, col, top))

get_processed_production_by_activity_type ==
    TopNView("get_processed_production_by_activity_type", "Tipo de atividade", 2)

get_processed_production_by_material ==
    TopNView("get_processed_production_by_material", "Material", 3)

get_processed_production_by_frota_transporte ==
    TopNView("get_processed_production_by_frota_transporte", "Frota transporte", 3)

get_processed_productivity_analysis ==
    Called("get_processed_productivity_analysis",
           LegacyProductivityAnalysis(svc.rows, svc.query))

get_cycles_by_year_month ==
    Called("get_cycles_by_year_month", CyclesByYearMonth(svc.rows, svc.filters))

get_processed_productivity_by_equipment ==
    Called("get_processed_productivity_by_equipment",
           LegacyProductivityByEquipment(svc.rows, svc.query))

NextService ==
    \/ CycleService_apply_filters
    \/ get_production_by_activity_type
    \/ get_production_by_material
    \/ get_production_by_frota_transporte
    \/ get_productivity_analysis
    \/ get_productivity_by_equipment
    \/ get_processed_production_by_activity_type
    \/ get_processed_production_by_material
    \/ get_processed_production_by_frota_transporte
    \/ get_processed_productivity_analysis
    \/ get_cycles_by_year_month
    \/ get_processed_productivity_by_equipment

InitService ==
    /\ dirExists = TRUE
    /\ fs = EmptyDir
    /\ clock = 1
    /\ cache = EmptyCache
    /\ heap = NoObjects
    /\ req = [r \in Requests |-> IdleRequest]
    /\ calls = 0
    /\ stored = NoObjects
    /\ hashed = NothingHashed
    /\ quiet = "no"
    /\ handed = 0
    /\ fsops = 0
    /\ \E rows \in Datasets, query \in SampleQueries :
          svc = [rows |-> rows, query |-> query, filters |-> DateRangeDTO(query),
                 op |-> "none", out |-> <<>>]

SpecService == InitService /\ [][NextService]_vars

----------------------------------------------------------------------------
(* Calls of CycleService one after the other on the DataFrame the repository
   keeps: every aggregation gets the same object from get_raw_data and hands
   it to _apply_filters.  svc holds the rows as loaded, the frame as it is
   now and its columns, a call made earlier and the last call. *)

MaxFrameRows == 2
MaxServiceCalls == 3

\* The columns _load_excel_files asks read_excel for.
LoadedColumns ==
    { "DataHoraInicio", "Tipo Input", "Massa", "Tipo de atividade",
      "Especificacao de material", "Material", "Tag carga", "Frota carga",
      "Frota transporte" }

\* The frames the service is given: with every column, or with one of the
\* columns its aggregations name missing.
ColumnSets ==
    {LoadedColumns} \cup
    {LoadedColumns \ {c} : c \in {"DataHoraInicio", "Massa", "Tipo Input", "Tipo de atividade"}}

Frames == {d \in Datasets : Len(d) <= MaxFrameRows}

RepeatFilters ==
    { DateRangeDTO(Filter(None, None, {}, {}, {}, {})),
      DateRangeDTO(Filter(At(12, 1), None, {}, {}, {}, {})),
      DateRangeDTO(Filter(None, None, {"Ore"}, {}, {}, {})) }

\* required_columns of the method, in the order of the list; for
\* get_cycles_by_year_month the column _apply_filters itself looks for.
required_columns(op) ==
    CASE op = "get_cycles_by_year_month" -> <<"DataHoraInicio">>
      [] op = "get_production_by_activity_type" ->
            <<"DataHoraInicio", "Tipo de atividade", "Massa", "Tipo Input">>
      [] op = "get_productivity_analysis" -> <<"DataHoraInicio", "Massa", "Tipo Input">>

\* The variant without the loop over required_columns.
NoMissingColumns(op, columns) == <<>>

\* for col in required_columns: if col not in df.columns
MissingColumns(op, columns) == SelectSeq(required_columns(op), LAMBDA c : c \notin columns)

\* if 'Tipo Input' in df.columns / if 'Frota transporte' in df.columns: a list
\* for a column the frame lacks is not applied.
ColumnsApplied(filters, columns) ==
    [filters EXCEPT
        !.tipos_input = IF "Tipo Input" \in columns THEN @ ELSE {},
        !.frota_transporte = IF "Frota transporte" \in columns THEN @ ELSE {}]

\* The method on the rows of the frame
Aggregate(op, rows, filters) ==
    CASE op = "get_cycles_by_year_month" -> CyclesByYearMonth(rows, filters)
      [] op = "get_production_by_activity_type" ->
            ProductionBy(rows, filters, "Tipo de atividade")
      [] op = "get_productivity_analysis" -> ProductivityAnalysis(rows, filters)

\* What the method returns or raises:
\* raise ValueError(f'Coluna {col} não encontrada nos dados') for the first
\* required column the frame lacks, else the records.
ServiceResult(op, rows, columns, filters) ==
    LET missing == MissingColumns(op, columns)
    IN  IF missing # <<>>
        THEN [kind |-> "raise", err |-> "ValueError", col |-> Head(missing), out |-> <<>>]
        ELSE [kind |-> "ok", err |-> "", col |-> "",
              out |-> Aggregate(op, rows, ColumnsApplied(filters, columns))]

\* The variant in which the selections are done on the frame itself.
FrameFilteredInPlace(rows, filters) == ApplyFilters(rows, filters)

\* What _apply_filters leaves in the frame it was given: the converted
\* DataHoraInicio column; dropna and the selections build new frames.
FrameAfterFilters(rows, filters) == ConvertDates(rows)

\* One call of a method of the service with the given filters.
ServiceCall(op, filters) ==
    /\ svc.n < MaxServiceCalls
    /\ LET res == ServiceResult(op, svc.frame, svc.columns, filters)
           call == [op |-> op, filters |-> filters, res |-> res, before |-> svc.frame]
       IN  \E mark \in BOOLEAN :
              svc' = [svc EXCEPT
                         !.frame = IF res.kind = "ok"
                                   THEN FrameAfterFilters(@, ColumnsApplied(filters, svc.columns))
                                   ELSE @,
                         !.n = @ + 1,
                         !.first = IF @ = None /\ mark THEN Some(call) ELSE @,
                         !.last = Some(call)]
    /\ UNCHANGED <<dirExists, fs, clock, cache, heap, req, calls, stored, hashed, quiet,
                   handed, fsops>>

cached_get_cycles_by_year_month ==
    \E f \in RepeatFilters : ServiceCall("get_cycles_by_year_month", f)

cached_get_production_by_activity_type ==
    \E f \in RepeatFilters : ServiceCall("get_production_by_activity_type", f)

cached_get_productivity_analysis ==
    \E f \in RepeatFilters : ServiceCall("get_productivity_analysis", f)

NextRepeat ==
    \/ cached_get_cycles_by_year_month
    \/ cached_get_production_by_activity_type
    \/ cached_get_productivity_analysis

InitRepeat ==
    /\ dirExists = TRUE
    /\ fs = EmptyDir
    /\ clock = 1
    /\ cache = EmptyCache
    /\ heap = NoObjects
    /\ req = [r \in Requests |-> IdleRequest]
    /\ calls = 0
    /\ stored = NoObjects
    /\ hashed = NothingHashed
    /\ quiet = "no"
    /\ handed = 0
    /\ fsops = 0
    /\ \E rows \in Frames : \E columns \in ColumnSets :
          svc = [rows |-> rows, frame |-> rows, columns |-> columns, n |-> 0,
                 first |-> None, last |-> None]

SpecRepeat == InitRepeat /\ [][NextRepeat]_vars

----------------------------------------------------------------------------
(* Properties.  They read the history fields: of a request, the cache as   *)
(* it was when the request arrived (pre), the fingerprint its call         *)
(* computed (fp), the file states it fingerprinted (statted) and read      *)
(* (read), whether it entered the loader (loaded) and what get_raw_data    *)
(* gave back (gret).                                                        *)

GetCalls == {r \in Requests : req[r].op \in {"get", "agg"}}
ClearCalls == {r \in Requests : req[r].op = "clear"}

NamesOf(T) == {t[1] : t \in T}

\* The dataset object was built from every file its loader listed.
BuiltFromAllListed(id) ==
    /\ id \in DOMAIN stored
    /\ stored[id].listed # {}
    /\ NamesOf(stored[id].read) = stored[id].listed

\* C1, as stated: once get_raw_data has returned a dataset, a call made while
\* the (path, size, mtime) triples of the eligible files are as they were
\* when that call returned, with no clear_cache in between, never enters the
\* loader and returns the very object handed out before, which is the one
\* the cache holds.
C1_ReuseWhileUnchangedSinceReturn ==
    \A r \in GetCalls :
        LET rq == req[r]
        IN  (rq.handed0 # 0 /\ rq.quiet0 # "no" /\ ~rq.dirty) =>
                /\ ~rq.loaded
                /\ rq.gret.kind # "none" =>
                      /\ rq.gret.kind = "ok" /\ rq.gret.hit
                      /\ rq.gret.val = rq.handed0
                      /\ rq.gret.val = cache.raw_data

\* The part of C1 the code keeps: the same, for files unchanged since the
\* earlier call computed its fingerprint.
ReuseWhileUnchangedSinceFingerprint ==
    \A r \in GetCalls :
        LET rq == req[r]
        IN  (rq.handed0 # 0 /\ rq.quiet0 = "call" /\ ~rq.dirty) =>
                /\ ~rq.loaded
                /\ rq.gret.kind # "none" =>
                      /\ rq.gret.kind = "ok" /\ rq.gret.hit
                      /\ rq.gret.val = rq.handed0
                      /\ rq.gret.val = cache.raw_data

\* C2: get_raw_data returns without loading exactly when a dataset was cached
\* and the cached files_hash equals the fingerprint of this call, and then it
\* returns that dataset and leaves the cache alone; in every other case it
\* enters the loader, and when that succeeds the returned dataset is built
\* from every file listed and the cache holds it with this call's fingerprint.
C2_HitExactlyOnMatch ==
    \A r \in GetCalls :
        LET rq == req[r]
            match == rq.pre.raw_data # 0 /\ rq.pre.files_hash = rq.fp
        IN  /\ (rq.gret.kind # "none" /\ rq.fp # None) => (rq.loaded <=> ~match)
            /\ rq.gret.kind = "ok" =>
                  /\ rq.gret.hit <=> match
                  /\ rq.gret.hit => (rq.gret.val = rq.pre.raw_data /\ cache = rq.pre)
                  /\ ~rq.gret.hit =>
                        /\ BuiltFromAllListed(rq.gret.val)
                        /\ cache.raw_data = rq.gret.val
                        /\ cache.files_hash = rq.fp

\* A call found a dataset cached under another fingerprint, reloaded and
\* replaced it.
C2_Witness ==
    \E r \in GetCalls :
        /\ req[r].gret.kind = "ok" /\ ~req[r].gret.hit
        /\ req[r].pre.raw_data # 0
        /\ cache.raw_data = req[r].gret.val /\ cache.raw_data # req[r].pre.raw_data

\* C3: when get_raw_data raises, every field of the cache is what it was when
\* the call began, and no dataset built from only some of the listed files
\* is ever in the cache.
C3_FailedReloadKeepsCache ==
    /\ \A r \in GetCalls : req[r].gret.kind = "raise" => cache = req[r].pre
    /\ cache.raw_data # 0 => BuiltFromAllListed(cache.raw_data)

\* A reload read one file, failed on the next and left the cached dataset.
C3_Witness ==
    \E r \in GetCalls :
        /\ req[r].gret.kind = "raise" /\ req[r].gret.err = "ReadError"
        /\ req[r].read # {}
        /\ req[r].pre.raw_data # 0 /\ cache.raw_data = req[r].pre.raw_data

\* A request is between the first and the last write of a replacement of the
\* dataset and its fingerprint.
Replacing(rq) == rq.pc \in {"store_hash", "clear_processed", "clear_hash"}

\* C4, as stated: whenever no request is in the middle of writing them, the
\* cache holds either no dataset and no fingerprint, or a dataset together
\* with the fingerprint computed by the call that loaded it.
C4_DatasetAndFingerprintPaired ==
    (\A r \in Requests : ~Replacing(req[r])) =>
        \/ cache.raw_data = 0 /\ cache.files_hash = None
        \/ /\ cache.raw_data # 0
           /\ cache.raw_data \in DOMAIN stored
           /\ cache.files_hash = stored[cache.raw_data].fp

\* C5, as stated: two requests are never both inside the loader for the same
\* fingerprint.
C5_OneLoaderAtATime ==
    \A r1, r2 \in Requests :
        (r1 # r2 /\ req[r1].pc = "load_read" /\ req[r2].pc = "load_read") =>
            req[r1].current_hash # req[r2].current_hash

\* C6: clear_cache reports had_raw_data true exactly when a dataset was cached
\* when it was called, which is exactly when get_raw_data had succeeded since
\* the start or the previous clear_cache; when it returns, the cache is as
\* constructed.  A get_raw_data that finds no dataset cached is never served
\* from the cache: when it returns, it has run the loader.
C6_ClearReportsAndEmpties ==
    /\ \A r \in ClearCalls :
          LET rq == req[r]
          IN  /\ rq.pre.raw_data # 0 <=> rq.handed0 # 0
              /\ rq.ret.kind = "ok" =>
                    /\ rq.ret.val = 1 <=> rq.pre.raw_data # 0
                    /\ rq.ret.val = 0 <=> rq.pre.raw_data = 0
                    /\ cache = EmptyCache
    /\ \A r \in GetCalls :
          LET rq == req[r]
          IN  (rq.pre.raw_data = 0 /\ rq.gret.kind # "none") =>
                  /\ ~rq.gret.hit
                  /\ rq.gret.kind = "ok" => rq.loaded

\* clear_cache found a dataset, reported it and emptied the cache.
C6_Witness ==
    \E r \in ClearCalls :
        /\ req[r].ret.kind = "ok" /\ req[r].ret.val = 1
        /\ req[r].pre.raw_data # 0
        /\ cache = EmptyCache

\* C7, as stated: a get_raw_data during which the directory is missing or
\* holds no eligible file ends with the 'no valid Excel file' error (so its
\* fingerprint computation did not raise), and no dataset is ever built from
\* zero files.
C7_NoFilesMeansError ==
    /\ \A r \in GetCalls :
          LET rq == req[r]
          IN  (rq.gret.kind # "none" /\ ~rq.dirty /\ InfoTriples(dirExists, fs) = {}) =>
                  (rq.gret.kind = "raise" /\ rq.gret.err = "ValueError")
    /\ \A id \in DOMAIN stored : stored[id].listed # {} /\ stored[id].read # {}

\* The part of C7 the code keeps: no dataset is built from zero files, and a
\* call that finds nothing cached and no eligible file raises the error.
NoDatasetFromZeroFiles ==
    /\ \A id \in DOMAIN stored : stored[id].listed # {} /\ stored[id].read # {}
    /\ \A r \in GetCalls :
          LET rq == req[r]
          IN  (rq.gret.kind # "none" /\ ~rq.dirty /\ InfoTriples(dirExists, fs) = {}
                 /\ rq.pre.raw_data = 0) =>
                  (rq.gret.kind = "raise" /\ rq.gret.err = "ValueError")

\* C8: the fingerprint is a function of the set of (path, size, mtime)
\* triples fingerprinted and of nothing else: the fingerprint a call computes
\* equals the cached one exactly when the two were computed from the same set
\* of triples, whatever the order in which the files were enumerated.
C8_FingerprintOfTheSet ==
    \A r \in GetCalls :
        (req[r].fp # None /\ cache.files_hash # None) =>
            (req[r].fp = cache.files_hash <=> req[r].statted = hashed.set)

\* Two enumerations of the same two files in different orders gave the same
\* fingerprint.
C8_Witness ==
    \E r \in GetCalls :
        /\ req[r].fp # None /\ req[r].fp = cache.files_hash
        /\ Cardinality(req[r].statted) = 2
        /\ req[r].scan # hashed.scan

\* C9: no '~$' file is ever fingerprinted, listed for loading or read, and no
\* row of a dataset comes from one; changes to such files do not count as a
\* change of the eligible files, and while those are unchanged a call is
\* served from the cache; a load during which the eligible files do not
\* change reads exactly the file states that were fingerprinted.
C9_TempFilesIgnored ==
    /\ \A r \in GetCalls :
          LET rq == req[r]
          IN  /\ NamesOf(rq.statted) \cap TempNames = {}
              /\ NamesOf(rq.read) \cap TempNames = {}
              /\ rq.listed \cap TempNames = {}
              /\ (rq.handed0 # 0 /\ rq.quiet0 = "call" /\ ~rq.dirty /\ rq.gret.kind # "none")
                    => (rq.gret.hit /\ ~rq.loaded)
              /\ (rq.gret.kind = "ok" /\ rq.loaded /\ ~rq.dirty) => rq.read = rq.statted
    /\ \A id \in DOMAIN heap : \A k \in DOMAIN heap[id] : heap[id][k].src \notin TempNames

\* A '~$' file was written after the cached fingerprint was computed, and the
\* next call was served from the cache.
C9_Witness ==
    \E r \in GetCalls :
        /\ req[r].gret.kind = "ok" /\ req[r].gret.hit
        /\ NameTmp \in DOMAIN fs
        /\ fs[NameTmp].mtime > cache.last_check

\* C10, as stated: the rows of the cached dataset are the rows its reload
\* stored.
C10_CachedRowsUntouched ==
    cache.raw_data # 0 =>
        /\ cache.raw_data \in DOMAIN heap
        /\ heap[cache.raw_data] = stored[cache.raw_data].rows

----------------------------------------------------------------------------
(* Properties of the functions on the rows.  They read svc: the rows and the
   filters of the call, and what the function returned. *)

Returned(op) == svc.op = op
Ids(rows) == {rows[i].id : i \in DOMAIN rows}

\* The row passes the categorical filter given as a set, when one is given.
Passes(cell, values) == values = {} \/ (cell # None /\ cell[1] \in values)

\* C11: for each of the four categorical filters (tipos_input,
\* frota_transporte, frota_carga, tag_carga) that is given and not empty, every
\* row _apply_filters returns has the field in the given set, and no row with
\* an empty field is returned.
C11_CategoricalFiltersApplied ==
    Returned("_apply_filters") =>
        \A i \in DOMAIN svc.out :
            /\ Passes(svc.out[i].TipoInput, svc.filters.tipos_input)
            /\ Passes(svc.out[i].FrotaTransporte, svc.filters.frota_transporte)
            /\ Passes(svc.out[i].FrotaCarga, svc.filters.frota_carga)
            /\ Passes(svc.out[i].TagCarga, svc.filters.tag_carga)

\* The cell holds an instant: a timestamp, or a text that denotes one.
Parseable(c) == c.k = "ts" \/ (c.k = "text" /\ c.v # 0)

\* The instant a bound names: its time of day on its date, the midnight that
\* begins the date when it has no time.
Instant(b) == IF b.time = None THEN b.date * 100 ELSE b.date * 100 + b.time[1]

\* The instant of the row is within the bounds given.
InWindow(r, filters) ==
    /\ Parseable(r.DataHoraInicio)
    /\ filters.data_inicio # None => r.DataHoraInicio.v >= Instant(filters.data_inicio[1])
    /\ filters.data_fim # None => r.DataHoraInicio.v <= Instant(filters.data_fim[1])

PassesCategorical(r, filters) ==
    /\ Passes(r.TipoInput, filters.tipos_input)
    /\ Passes(r.FrotaTransporte, filters.frota_transporte)
    /\ Passes(r.FrotaCarga, filters.frota_carga)
    /\ Passes(r.TagCarga, filters.tag_carga)

Required ==
    [ get_production_by_activity_type |-> {"Tipo de atividade", "Massa", "Tipo Input"},
      get_production_by_material |-> {"Material", "Massa", "Tipo Input"},
      get_production_by_frota_transporte |-> {"Frota transporte", "Massa", "Tipo Input"},
      get_productivity_analysis |-> {"Massa", "Tipo Input"},
      get_productivity_by_equipment |-> {"Massa", "Tag carga"} ]

\* The rows of the call that the filters leave.
Filtered == RowSet(ApplyFilters(svc.rows, svc.filters))

\* C13: when the filters leave no row, every aggregation of CycleService
\* returns the empty list; and so it does when rows are left but each of them
\* lacks a field the aggregation requires.
C13_NothingLeftGivesEmptyList ==
    svc.op \in DOMAIN Required =>
        /\ Filtered = {} => svc.out = <<>>
        /\ (\A r \in Filtered : \E c \in Required[svc.op] : Column(r, c) = None)
              => svc.out = <<>>

\* C13 happens: rows with an input type are filtered for one none of them
\* has, and get_productivity_analysis returns the empty list.
C13_Witness ==
    /\ Returned("get_productivity_analysis")
    /\ svc.filters.tipos_input = {"Gold"}
    /\ \E i \in DOMAIN svc.rows :
          Parseable(svc.rows[i].DataHoraInicio) /\ svc.rows[i].TipoInput # None
    /\ Filtered = {}
    /\ svc.out = <<>>

\* The second case of C13: rows are left by the filters, all without a mass.
DroppedForMissingFields ==
    /\ Returned("get_productivity_analysis")
    /\ Filtered # {}
    /\ \A r \in Filtered : r.Massa = None
    /\ svc.out = <<>>

\* The top-N views of app.py, each with its column and its top_n.
TopViews ==
    [ get_processed_production_by_activity_type |-> [col |-> "Tipo de atividade", top_n |-> 2],
      get_processed_production_by_material |-> [col |-> "Material", top_n |-> 3],
      get_processed_production_by_frota_transporte |-> [col |-> "Frota transporte", top_n |-> 3] ]

\* The rows that enter the aggregation of the view called.
Entering == RowSet(TopNRows(svc.rows, svc.query, TopViews[svc.op].col))

Category(r) == Column(r, TopViews[svc.op].col)[1]
Records == {svc.out[i] : i \in DOMAIN svc.out}
RecordsOf(m) == {x \in Records : x.ano_mes = m}

RECURSIVE SumMassaTotal(_)
SumMassaTotal(S) ==
    IF S = {} THEN 0
    ELSE LET x == CHOOSE y \in S : TRUE
         IN  x.massa_total + SumMassaTotal(S \ {x})

\* C14: in a top-N view every row that enters the aggregation is counted
\* under exactly one label of its month, its own category when the month
\* shows that category and 'Outros' otherwise, and the massa_total of the
\* month's labels add up to the mass of the month's rows.
C14_LabelsPartitionTheRows ==
    svc.op \in DOMAIN TopViews =>
        \A m \in {Month(r) : r \in Entering} \cup {x.ano_mes : x \in Records} :
            LET rows == {r \in Entering : Month(r) = m}
                own == {x.categoria : x \in RecordsOf(m)} \ {"Outros"}
                label(r) == IF Category(r) \in own THEN Category(r) ELSE "Outros"
            IN  /\ \A x, y \in RecordsOf(m) : x.categoria = y.categoria => x = y
                /\ \A x \in RecordsOf(m) :
                      x.massa_total = SumMassa({r \in rows : label(r) = x.categoria})
                /\ \A r \in rows : \E x \in RecordsOf(m) : x.categoria = label(r)
                /\ SumMassaTotal(RecordsOf(m)) = SumMassa(rows)

\* C14 happens: four materials in one month, the least of them under
\* 'Outros', and the four masses in the month's total.
C14_Witness ==
    /\ Returned("get_processed_production_by_material")
    /\ Cardinality({Category(r) : r \in Entering}) = 4
    /\ \E x \in Records : x.categoria = "Outros" /\ x.massa_total = 500
    /\ SumMassaTotal(Records) = 6500

\* C15: in a top-N view the categories under their own name are those of one
\* set, the same for every month: top_n categories (all, when there are
\* fewer) that no category outside exceeds in total mass over the whole
\* filtered set.  Every row of a category of the set is under that name,
\* every other row under 'Outros'.
C15_SameTopSetEveryMonth ==
    svc.op \in DOMAIN TopViews =>
        LET cats == {Category(r) : r \in Entering}
            total(c) == SumMassa({r \in Entering : Category(r) = c})
            n == TopViews[svc.op].top_n
        IN  \E T \in SUBSET cats :
                /\ Cardinality(T) = IF Cardinality(cats) < n THEN Cardinality(cats) ELSE n
                /\ \A a \in T, b \in cats \ T : total(a) >= total(b)
                /\ \A x \in Records : x.categoria # "Outros" => x.categoria \in T
                /\ \A r \in Entering :
                      \E x \in RecordsOf(Month(r)) :
                          x.categoria = IF Category(r) \in T THEN Category(r) ELSE "Outros"

\* C15 happens: B is second to C in month 2 and yet under its own name
\* there, C under 'Outros', because over both months B and A lead.
C15_Witness ==
    /\ Returned("get_processed_production_by_activity_type")
    /\ {x.categoria : x \in RecordsOf(1)} = {"A", "B"}
    /\ \E x, y \in RecordsOf(2) :
          /\ x.categoria = "B"
          /\ y.categoria = "Outros"
          /\ x.massa_total < y.massa_total
    /\ \A r \in Entering : Month(r) = 2 /\ Category(r) # "B" => Category(r) = "C"

\* The mass-by-category views of CycleService, each with the number of
\* categories it is to show under their own name.
ServiceViews ==
    [ get_production_by_activity_type |-> 2,
      get_production_by_material |-> 3,
      get_production_by_frota_transporte |-> 3 ]

\* C16: a mass-by-category view of CycleService shows at most N categories
\* under their own name (N = 2 for activity types, 3 for materials and
\* transport fleets), every other category being under 'Outros'.
C16_ServiceViewsKeepTopN ==
    svc.op \in DOMAIN ServiceViews =>
        Cardinality({x.categoria : x \in Records} \ {"Outros"}) <= ServiceViews[svc.op]

\* The hour buckets that hold a row among the given rows.
HourBuckets(S) == {HourBucket(r) : r \in S}

\* C17: every record of get_productivity_analysis gives as hours worked the
\* number of distinct hour buckets that hold a row of its month, among the
\* rows the filters leave that have a mass and an input type.
C17_HoursFromTheData ==
    Returned("get_productivity_analysis") =>
        \A x \in Records :
            x.horas_trabalhadas =
                Cardinality(HourBuckets({r \in Filtered :
                    /\ r.Massa # None
                    /\ r.TipoInput # None
                    /\ Month(r) = x.ano_mes}))

\* The identifier names no equipment: it is empty, '-' or blank.
Placeholder(cell) == cell = None \/ Strip(cell[1]) \in {"", "-"}

\* C20: no record of get_productivity_by_equipment has an equipment
\* identifier that is '-' or blank after trimming, and the records hold the
\* mass of the rows with a proper identifier only.
C20_NoPlaceholderEquipment ==
    Returned("get_productivity_by_equipment") =>
        /\ \A x \in Records : ~Placeholder(Some(x.equipamento))
        /\ \A x \in Records :
              x.total_toneladas.num =
                  SumMassa({r \in Filtered :
                      /\ r.Massa # None
                      /\ ~Placeholder(r.TagCarga)
                      /\ Date(r) = x.data
                      /\ r.TagCarga[1] = x.equipamento})

\* A multiple of every number of hours a day of the dataset can have.
EveryHours ==
    LET f[n \in 0..MaxRows] == IF n = 0 THEN 1 ELSE n * f[n - 1]
    IN  f[MaxRows]

Abs(x) == IF x < 0 THEN -x ELSE x

\* The rows get_processed_productivity_analysis computes on.
Productive == RowSet(LegacyFilters(svc.rows, svc.query, {"Massa", "Tipo Input"}))

\* C18: get_processed_productivity_analysis has one record for each month
\* with rows.  With the hours of a day being the number of distinct hour
\* buckets that hold a row of the day, and the rate of a day its tonnes
\* divided by its hours, the record gives the sum of the hours of the month's
\* days, the sum of their tonnes (to the hundredth each day is rounded to) and
\* the arithmetic mean of their rates (to the hundredth).
C18_MeanOfDailyRates ==
    Returned("get_processed_productivity_analysis") =>
        /\ {x.ano_mes : x \in Records} = {Month(r) : r \in Productive}
        /\ \A x \in Records :
              LET rows == {r \in Productive : Month(r) = x.ano_mes}
                  days == {Date(r) : r \in rows}
                  n == Cardinality(days)
                  kg == [d \in days |-> SumMassa({r \in rows : Date(r) = d})]
                  hours == [d \in days |->
                               Cardinality(HourBuckets({r \in rows : Date(r) = d}))]
                  rates == [d \in days |-> kg[d] * (EveryHours \div hours[d])]
              IN  /\ x.horas_operacionais_total = SumOver(days, hours)
                  /\ x.toneladas_total.den = 100
                  /\ Abs(10 * x.toneladas_total.num - SumOver(days, kg)) <= 5 * n + 5
                  /\ x.produtividade_media_ton_h.den = 100
                  /\ Abs(10 * x.produtividade_media_ton_h.num * EveryHours * n
                           - SumOver(days, rates)) <= 10 * EveryHours * n

\* C18 happens: a day of 6 t in 2 hours and a day of 0.5 t in 1 hour give the
\* month 6.5 t, 3 hours and the rate 1.75 t/h, the mean of 3.0 and 0.5, where
\* 6.5 t in 3 hours would be 2.17 t/h.
C18_Witness ==
    /\ Returned("get_processed_productivity_analysis")
    /\ Len(svc.out) = 1
    /\ svc.out[1].toneladas_total = Frac(650, 100)
    /\ svc.out[1].horas_operacionais_total = 3
    /\ svc.out[1].produtividade_media_ton_h = Frac(175, 100)

RECURSIVE GCD(_, _)
GCD(a, b) == IF b = 0 THEN a ELSE GCD(b, a % b)

\* n / d in lowest terms, d being positive
Lowest(n, d) == [num |-> n \div GCD(Abs(n), d), den |-> d \div GCD(Abs(n), d)]

\* C19: in a monthly productivity result, of CycleService or of app.py, the
\* periods ascend, the growth of the first record is the number 0, and the
\* growth of every later record whose predecessor has tonnes other than 0 is
\* (current - previous) / previous * 100 of the tonnes the two records give.
C19_GrowthFromPrevious ==
    svc.op \in {"get_productivity_analysis", "get_processed_productivity_analysis"} =>
        \A i \in DOMAIN svc.out :
            LET g == svc.out[i].crescimento_toneladas_pct
                cur == svc.out[i].toneladas_total
            IN  IF i = 1
                THEN g.k = "num" /\ g.num = 0
                ELSE LET prev == svc.out[i - 1].toneladas_total
                     IN  /\ svc.out[i - 1].ano_mes < svc.out[i].ano_mes
                         /\ prev.den = cur.den
                         /\ prev.num # 0 =>
                               /\ g.k = "num"
                               /\ g.den > 0
                               /\ Lowest(g.num, g.den)
                                     = Lowest(100 * (cur.num - prev.num), prev.num)

\* C19 happens: two months, the second with fewer tonnes than the first.
C19_Witness ==
    /\ Returned("get_productivity_analysis")
    /\ Len(svc.out) = 2
    /\ svc.out[1].crescimento_toneladas_pct.num = 0
    /\ svc.out[2].toneladas_total.num < svc.out[1].toneladas_total.num
    /\ svc.out[2].crescimento_toneladas_pct.num < 0

\* The rows get_processed_productivity_by_equipment computes on: with an
\* instant, a mass and an equipment identifier that is no placeholder, of a
\* transport fleet asked for and within the dates.
OfEquipment ==
    {r \in RowSet(svc.rows) :
        /\ InWindow(r, svc.query)
        /\ r.Massa # None
        /\ ~Placeholder(r.TagCarga)
        /\ Passes(r.FrotaTransporte, svc.query.frota_transporte)}

\* C21: get_processed_productivity_by_equipment has exactly one record for
\* each pair of a day and an equipment with rows, in the order of the day and
\* then of the identifier.  The hours of a record are the distinct hour
\* buckets of its rows, at least one, so nothing is divided by zero; its
\* tonnes per hour are its tonnes divided by the hours (to the hundredth) and
\* its cycles per hour the number of its rows divided by the hours (to the
\* tenth).
C21_OneRecordPerDayAndEquipment ==
    Returned("get_processed_productivity_by_equipment") =>
        /\ {<<x.Data, x.Equipamento>> : x \in Records}
              = {<<Date(r), r.TagCarga[1]>> : r \in OfEquipment}
        /\ \A i, j \in DOMAIN svc.out :
              i < j => \/ svc.out[i].Data < svc.out[j].Data
                       \/ /\ svc.out[i].Data = svc.out[j].Data
                          /\ StrRank(svc.out[i].Equipamento) < StrRank(svc.out[j].Equipamento)
        /\ \A x \in Records :
              LET rows == {r \in OfEquipment :
                              Date(r) = x.Data /\ r.TagCarga[1] = x.Equipamento}
                  h == Cardinality(HourBuckets(rows))
                  n == Cardinality(rows)
              IN  /\ h >= 1
                  /\ x.horas_operacionais = h
                  /\ x.total_ciclos = n
                  /\ x.toneladas_por_hora.den = 100
                  /\ Abs(10 * h * x.toneladas_por_hora.num - SumMassa(rows)) <= 5 * h
                  /\ x.ciclos_por_hora.den = 10
                  /\ 2 * Abs(h * x.ciclos_por_hora.num - 10 * n) <= h

\* C21 happens: two days, on the first an equipment with two rows in two
\* hours: 1 t in 2 hours is 0.5 t/h, 2 cycles in 2 hours 1.0 per hour.
C21_Witness ==
    /\ Returned("get_processed_productivity_by_equipment")
    /\ Len(svc.out) = 2
    /\ svc.out[1].Data < svc.out[2].Data
    /\ svc.out[1].horas_operacionais = 2
    /\ svc.out[1].toneladas_por_hora = Frac(50, 100)
    /\ svc.out[1].ciclos_por_hora = Frac(10, 10)

RECURSIVE SumCount(_)
SumCount(S) ==
    IF S = {} THEN 0
    ELSE LET x == CHOOSE y \in S : TRUE
         IN  x.count + SumCount(S \ {x})

\* C22: get_cycles_by_year_month has exactly one record for each month that
\* holds a row the filters leave, the periods strictly ascending, each count
\* the number of those rows in its month; the counts add up to the number of
\* rows the filters leave.
C22_OneCountPerMonth ==
    Returned("get_cycles_by_year_month") =>
        /\ {x.ano_mes : x \in Records} = {Month(r) : r \in Filtered}
        /\ \A i, j \in DOMAIN svc.out : i < j => svc.out[i].ano_mes < svc.out[j].ano_mes
        /\ \A x \in Records : x.count = Cardinality({r \in Filtered : Month(r) = x.ano_mes})
        /\ SumCount(Records) = Cardinality(Filtered)

\* C22 happens: three rows pass, one of them without a mass, two in the first
\* month and one in the second.
C22_Witness ==
    /\ Returned("get_cycles_by_year_month")
    /\ Len(svc.out) = 2
    /\ svc.out[1].count = 2
    /\ svc.out[2].count = 1
    /\ \E r \in Filtered : r.Massa = None
    /\ Cardinality(Filtered) < Len(svc.rows)

\* The bounds of the filters are in order.
Ordered(filters) ==
    filters.data_inicio # None /\ filters.data_fim # None
        => Instant(filters.data_inicio[1]) <= Instant(filters.data_fim[1])

\* The one list is the other with nothing added, or the other is not given.
NarrowsList(values, wider) == wider = {} \/ (values # {} /\ values \subseteq wider)

\* The filters f are the filters g with a bound or a list added, or with a
\* bound or a list made narrower.
Narrows(f, g) ==
    /\ g.data_inicio = None
          \/ (f.data_inicio # None /\ Instant(f.data_inicio[1]) >= Instant(g.data_inicio[1]))
    /\ g.data_fim = None
          \/ (f.data_fim # None /\ Instant(f.data_fim[1]) <= Instant(g.data_fim[1]))
    /\ NarrowsList(f.tipos_input, g.tipos_input)
    /\ NarrowsList(f.frota_transporte, g.frota_transporte)
    /\ NarrowsList(f.frota_carga, g.frota_carga)
    /\ NarrowsList(f.tag_carga, g.tag_carga)

\* C23: the rows _apply_filters returns for a query with bounds in order are
\* among the rows it returns, on the same dataset, for any query that lacks
\* one of its bounds or lists or has it wider.
C23_AddingAFilterAddsNoRow ==
    Returned("_apply_filters") /\ Ordered(svc.query) =>
        \A g \in SampleQueries :
            Ordered(g) /\ Narrows(svc.query, g)
                => Ids(svc.out) \subseteq Ids(ApplyFilters(svc.rows, DateRangeDTO(g)))

\* C23 happens: the input type Ore and a lower bound return some rows, fewer
\* than the types Ore and Waste with that bound, which return fewer than the
\* bound alone.
C23_Witness ==
    /\ Returned("_apply_filters")
    /\ svc.filters = Filter(Day(12), None, {"Ore"}, {}, {}, {})
    /\ svc.out # <<>>
    /\ LET two == Ids(ApplyFilters(svc.rows, Filter(Day(12), None, {"Ore", "Waste"}, {}, {}, {})))
           all == Ids(ApplyFilters(svc.rows, Filter(Day(12), None, {}, {}, {}, {})))
       IN  /\ Ids(svc.out) # two
           /\ two # all

\* C28: a bound the client sends with a time of day is applied at that
\* instant: every row _apply_filters returns is within the bounds of the
\* query, and every row within them that passes the categorical filters is
\* returned.
C28_BoundAtItsTimeOfDay ==
    Returned("_apply_filters") =>
        \A i \in DOMAIN svc.rows :
            LET r == svc.rows[i]
                kept == r.id \in Ids(svc.out)
            IN  /\ kept => InWindow(r, svc.query)
                /\ InWindow(r, svc.query) /\ PassesCategorical(r, svc.query) => kept

\* C29: every growth percentage of a monthly productivity result is a finite
\* number: the growth of the tonnes in both implementations, and the growth
\* of the mean rate in get_processed_productivity_analysis.
C29_GrowthIsFinite ==
    /\ svc.op \in {"get_productivity_analysis", "get_processed_productivity_analysis"} =>
          \A i \in DOMAIN svc.out : svc.out[i].crescimento_toneladas_pct.k = "num"
    /\ svc.op = "get_processed_productivity_analysis" =>
          \A i \in DOMAIN svc.out : svc.out[i].crescimento_prod_pct.k = "num"

----------------------------------------------------------------------------
(* Properties of the cache status and of the fingerprint of the cached
   dataset. *)

\* C26, as stated: whenever the cache holds a dataset and no request is in
\* the middle of replacing it, the cached fingerprint was computed from
\* exactly the file states the dataset was read from; and the dataset a call
\* is served from the cache was read from the eligible files as they are.
C26_FingerprintOfTheFilesLoaded ==
    /\ (cache.raw_data # 0 /\ \A r \in Requests : ~Replacing(req[r])) =>
          /\ cache.raw_data \in DOMAIN stored
          /\ hashed.set = stored[cache.raw_data].read
    /\ \A r \in GetCalls :
          LET rq == req[r]
          IN  (rq.gret.kind = "ok" /\ rq.gret.hit /\ ~rq.dirty) =>
                  /\ rq.gret.val \in DOMAIN stored
                  /\ stored[rq.gret.val].read = InfoTriples(dirExists, fs)

StatusCalls == {r \in Requests : req[r].op = "status"}

\* C25: from its first statement to its return, get_cache_status leaves every
\* key of the cache, the cached DataFrame and what was last handed out as
\* they were when it was called.  The get_raw_data that comes right after it
\* starts from the cache the status call started from, and it is served from
\* the cache when the files are as the cached fingerprint has them, and runs
\* the loader when nothing is cached, as it does without a status call.
C25_StatusIsReadOnly ==
    /\ \A r \in StatusCalls :
          /\ cache = req[r].pre
          /\ handed = req[r].handed0
          /\ cache.raw_data # 0 =>
                /\ cache.raw_data \in DOMAIN heap
                /\ heap[cache.raw_data] = stored[cache.raw_data].rows
    /\ \A r \in GetCalls :
          LET rq == req[r]
          IN  rq.before # None =>
                /\ rq.pre = rq.before[1].cache
                /\ (rq.handed0 # 0 /\ rq.quiet0 = "call" /\ ~rq.dirty /\ rq.gret.kind # "none")
                      => (rq.gret.kind = "ok" /\ rq.gret.hit /\ ~rq.loaded
                            /\ rq.gret.val = rq.pre.raw_data)
                /\ (rq.pre.raw_data = 0 /\ rq.gret.kind = "ok") => rq.loaded

\* C25 happens: a status call that found a dataset cached reported it valid,
\* and the get_raw_data after it was served that dataset from the cache.
C25_Witness ==
    \E r \in GetCalls :
        /\ req[r].before # None
        /\ req[r].before[1].cache.raw_data # 0
        /\ req[r].before[1].status.cache_valid
        /\ req[r].gret.kind = "ok" /\ req[r].gret.hit
        /\ req[r].gret.val = req[r].before[1].cache.raw_data

\* C27, as stated: in the record get_cache_status returns, cache_valid is
\* true exactly when has_raw_data is true and files_hash equals
\* current_files_hash.
C27_ValidMeansEqualFingerprints ==
    \A r \in StatusCalls :
        LET st == req[r].status
        IN  req[r].ret.kind = "ok" =>
                (st.cache_valid <=> (st.has_raw_data /\ st.files_hash = st.current_files_hash))

----------------------------------------------------------------------------
(* Properties of the calls of the service on the frame the repository keeps *)

\* C24: a call of an aggregation on a frame that lacks a column the method
\* requires raises the 'column not found' error naming a column that is
\* missing, returns no record, and leaves the frame as it was before the call:
\* not even the conversion of the dates, the first statement of the
\* filtering, has been done.
C24_MissingColumnFailsFirst ==
    svc.last # None =>
        LET call == svc.last[1]
            required == {required_columns(call.op)[i] : i \in DOMAIN required_columns(call.op)}
        IN  required \ svc.columns # {} =>
                /\ call.res.kind = "raise"
                /\ call.res.err = "ValueError"
                /\ call.res.col \in required \ svc.columns
                /\ call.res.out = <<>>
                /\ svc.frame = call.before

\* C24 happens: the frame has no Massa column and a date still as text;
\* get_productivity_analysis raised and the text is still there.
C24_Witness ==
    /\ svc.last # None
    /\ "Massa" \notin svc.columns
    /\ svc.last[1].op = "get_productivity_analysis"
    /\ svc.last[1].res.kind = "raise"
    /\ svc.last[1].res.col = "Massa"
    /\ \E i \in DOMAIN svc.frame : svc.frame[i].DataHoraInicio.k = "text"

\* C30: with no reload in between, a call of an aggregation returns what an
\* earlier call of the same aggregation with the same filters returned,
\* whatever calls were made on the frame between the two.
C30_SameCallSameResult ==
    (svc.first # None /\ svc.last # None) =>
        LET a == svc.first[1]
            b == svc.last[1]
        IN  (a.op = b.op /\ a.filters = b.filters) => a.res = b.res

\* C30 happens: the first and the third of three calls are the same
\* aggregation with the same filters and return the same records, with a
\* call in between; the first call found dates as text in the frame, which
\* the third found converted.
C30_Witness ==
    /\ svc.n = 3
    /\ svc.first # None
    /\ svc.first[1].op = svc.last[1].op
    /\ svc.first[1].filters = svc.last[1].filters
    /\ svc.first[1].before = svc.rows
    /\ svc.last[1].before # svc.rows
    /\ svc.first[1].res.kind = "ok"
    /\ svc.first[1].res.out # <<>>
    /\ svc.first[1].res = svc.last[1].res

====
